---------------------------- MODULE Spec2Model ----------------------------
(***************************************************************************)
(* A model of the financialStatements application: the statement parser    *)
(* (app/parser.py), the categorizer (app/categorizer.py), the transfer     *)
(* reconciler and the upload/reparse handlers (app/main.py) and the        *)
(* metrics aggregation with its BNR rate cache (app/metrics.py).           *)
(*                                                                         *)
(* Conventions.  An Optional value is a set: {} is None and {v} is the     *)
(* value v.  Money is counted in whole currency units unless a definition  *)
(* says otherwise; confidences are counted in hundredths (0.90 is 90).     *)
(* Every component has its own specification over its own variables; the   *)
(* variables of the other components stay at their idle values.            *)
(***************************************************************************)
EXTENDS Integers, Sequences, FiniteSets, TLC

VARIABLES
    c_call,      \* categorizer: the arguments of the categorize call
    c_result,    \* categorizer: the CategorizationResult it returned, or None
    p_chunk,     \* chunk parser: the chunk given to _parse_transaction_chunk
    p_result,    \* chunk parser: what the call returned or raised, or None
    t_rows,      \* reconciler: the statement's EXI/EXO rows, in query order
    t_official,  \* reconciler: what _fetch_bnr_rate(date, "GBP") answers, per date
    t_runs,      \* reconciler: how many times _postprocess_transfers has run
    t_prev,      \* reconciler: the rows as they were before the last run
    t_log,       \* reconciler: what the last run did for each outbound leg
    m_rows,      \* metrics: the stored transactions, each with its statement's flag
    m_rates,     \* metrics: what _fetch_bnr_rate(today, currency) answers, per currency
    m_args,      \* metrics: the arguments of the compute_monthly_metrics call
    m_result,    \* metrics: what the call returned or raised, or None
    m_summary,   \* metrics: what compute_summary returned for the result, or None
    pp_doc,      \* parse_pdf: the lines pdfplumber extracts from the file
    pp_result,   \* parse_pdf: what the call returned or raised, or None
    fx_impl,     \* rates: the module whose _fetch_bnr_rate runs ("main" or "metrics")
    fx_cache,    \* rates: that module's _BNR_RATE_CACHE, a function of (date, currency)
    fx_source,   \* rates: the rate the BNR publishes for GBP, per day
    fx_callers,  \* rates: each caller's position in _fetch_bnr_rate and its locals
    fx_calls,    \* rates: how many calls have been started
    fx_changes,  \* rates: how many times the source has changed an answer
    fx_answers,  \* rates: the answers the queries have had, by day and currency
    s_uploads,     \* store: the files of UPLOAD_DIR, file name to content
    s_statements,  \* store: the rows of table statements, in insertion order
    s_transactions,\* store: the rows of table transactions, in insertion order
    s_next_id,     \* store: how many primary keys (uuid4) have been drawn, plus one
    s_last,        \* store: the last request and its response
    s_requests     \* store: how many requests have been served

catVars == <<c_call, c_result>>
chunkVars == <<p_chunk, p_result>>
transferVars == <<t_rows, t_official, t_runs, t_prev, t_log>>
metricVars == <<m_rows, m_rates, m_args, m_result, m_summary>>
pdfVars == <<pp_doc, pp_result>>
fxVars == <<fx_impl, fx_cache, fx_source, fx_callers, fx_calls, fx_changes, fx_answers>>
storeVars == <<s_uploads, s_statements, s_transactions, s_next_id, s_last, s_requests>>
vars == <<catVars, chunkVars, transferVars, metricVars, pdfVars, fxVars, storeVars>>

None == {}
Some(v) == {v}
IsNone(x) == x = {}
Val(x) == CHOOSE v \in x : TRUE

MinOf(S) == CHOOSE x \in S : \A y \in S : x <= y
MaxOf(S) == CHOOSE x \in S : \A y \in S : y <= x

\* the position of i among the members of S
Rank(i, S) == Cardinality({j \in S : j <= i})

\* the variables of a component that is not running
CatIdle == c_call = None /\ c_result = None
ChunkIdle == p_chunk = None /\ p_result = None
TransferIdle ==
    t_rows = <<>> /\ t_official = <<>> /\ t_runs = 0 /\ t_prev = <<>> /\ t_log = <<>>
MetricsIdle ==
    m_rows = <<>> /\ m_rates = <<>> /\ m_args = None /\ m_result = None /\ m_summary = None
PdfIdle == pp_doc = <<>> /\ pp_result = None
FxIdle ==
    /\ fx_impl = "" /\ fx_cache = <<>> /\ fx_source = <<>>
    /\ fx_callers = <<>> /\ fx_calls = 0 /\ fx_changes = 0 /\ fx_answers = {}
StoreIdle ==
    /\ s_uploads = <<>> /\ s_statements = <<>> /\ s_transactions = <<>>
    /\ s_next_id = 1 /\ s_last = None /\ s_requests = 0

(***************************************************************************)
(* Text helpers: Python str methods and the regular expressions the code   *)
(* applies, computed on strings character by character.                    *)
(***************************************************************************)
Char(s, i) == SubSeq(s, i, i)

UpperToLower ==
    [c \in {"A","B","C","D","E","F","G","H","I","J","K","L","M","N","O","P","Q",
            "R","S","T","U","V","W","X","Y","Z"} |->
        CASE c = "A" -> "a" [] c = "B" -> "b" [] c = "C" -> "c" [] c = "D" -> "d"
          [] c = "E" -> "e" [] c = "F" -> "f" [] c = "G" -> "g" [] c = "H" -> "h"
          [] c = "I" -> "i" [] c = "J" -> "j" [] c = "K" -> "k" [] c = "L" -> "l"
          [] c = "M" -> "m" [] c = "N" -> "n" [] c = "O" -> "o" [] c = "P" -> "p"
          [] c = "Q" -> "q" [] c = "R" -> "r" [] c = "S" -> "s" [] c = "T" -> "t"
          [] c = "U" -> "u" [] c = "V" -> "v" [] c = "W" -> "w" [] c = "X" -> "x"
          [] c = "Y" -> "y" [] c = "Z" -> "z"]

LowerChar(c) == IF c \in DOMAIN UpperToLower THEN UpperToLower[c] ELSE c

RECURSIVE Lower(_)
Lower(s) ==
    IF s = "" THEN "" ELSE LowerChar(Char(s, 1)) \o Lower(SubSeq(s, 2, Len(s)))

IsSpace(c) == c = " "

WordChars ==
    {"a","b","c","d","e","f","g","h","i","j","k","l","m","n","o","p","q","r","s",
     "t","u","v","w","x","y","z","0","1","2","3","4","5","6","7","8","9","_"}
    \cup DOMAIN UpperToLower

IsWordChar(c) == c \in WordChars

\* re.sub(r"\s+", " ", s): every run of whitespace becomes one space
RECURSIVE CollapseSpaces(_)
CollapseSpaces(s) ==
    IF s = "" THEN ""
    ELSE IF IsSpace(Char(s, 1))
         THEN IF Len(s) >= 2 /\ IsSpace(Char(s, 2))
              THEN CollapseSpaces(SubSeq(s, 2, Len(s)))
              ELSE " " \o CollapseSpaces(SubSeq(s, 2, Len(s)))
         ELSE Char(s, 1) \o CollapseSpaces(SubSeq(s, 2, Len(s)))

\* str.strip() of a string whose whitespace runs are already single spaces
Strip(s) ==
    LET a == IF s # "" /\ IsSpace(Char(s, 1)) THEN SubSeq(s, 2, Len(s)) ELSE s
    IN  IF a # "" /\ IsSpace(Char(a, Len(a))) THEN SubSeq(a, 1, Len(a) - 1) ELSE a

\* kw in text
Contains(text, kw) ==
    \E i \in 1..(Len(text) - Len(kw) + 1) : SubSeq(text, i, i + Len(kw) - 1) = kw

(***************************************************************************)
(* app/categorizer.py                                                      *)
(***************************************************************************)
VENDOR_ACCOUNTANT == {"optimar consult expert"}
VENDOR_CAR_LEASING == {"bcr leasing", "aliat", "roviniete"}

_normalize(text) == Strip(CollapseSpaces(Lower(text)))

_contains_any(text, keywords) == \E kw \in keywords : Contains(text, kw)

\* re.search(rf"\b{token}\b", text); every token starts and ends with a letter
_word_boundary(text, token) ==
    \E i \in 1..(Len(text) - Len(token) + 1) :
        LET j == i + Len(token) - 1
        IN  /\ SubSeq(text, i, j) = token
            /\ (i = 1 \/ ~IsWordChar(Char(text, i - 1)))
            /\ (j = Len(text) \/ ~IsWordChar(Char(text, j + 1)))

CategorizationResult(category, confidence, reason, needs_review) ==
    [category |-> category, confidence |-> confidence, reason |-> reason,
     needs_review |-> needs_review]

strong(reason, category) == CategorizationResult(category, 90, reason, FALSE)
vendor(reason, category) == CategorizationResult(category, 95, reason, FALSE)
weak(reason, category) == CategorizationResult(category, 70, reason, FALSE)
fallback(reason, category) == CategorizationResult(category, 40, reason, TRUE)

OrEmpty(opt) == IF IsNone(opt) THEN "" ELSE Val(opt)

NormalizedText(description, to_account, from_account) ==
    _normalize(description \o " " \o OrEmpty(to_account) \o " " \o OrEmpty(from_account))

\* the rules of categorize, lines 70-122, on the normalized text
CategorizeRules(normalized, txn_type_code, direction) ==
        IF _contains_any(normalized, {"money added"})
        THEN strong("money added", "Revenue")
        ELSE IF direction = "outflow"
                /\ _contains_any(normalized, {"dividende", "dividend", "plata dividende", "profit share"})
        THEN strong("dividend keyword", "Paid dividends")
        ELSE IF direction = "outflow"
                /\ _contains_any(normalized, {"trezoreria", "anaf", "impozit", "contributii", "tax"})
        THEN strong("tax keyword", "Expenses towards government (taxes)")
        ELSE IF direction = "outflow"
                /\ (\/ _word_boundary(normalized, "cam")
                    \/ _word_boundary(normalized, "cass")
                    \/ _word_boundary(normalized, "cas"))
        THEN weak("tax acronym", "Expenses towards government (taxes)")
        ELSE IF direction = "outflow"
                /\ _contains_any(normalized, {"salariu", "payroll", "wage", "salary", "bonus"})
        THEN strong("employee keyword", "Expenses for employees")
        ELSE IF direction = "outflow" /\ _word_boundary(normalized, "cim")
        THEN weak("cim keyword", "Expenses for employees")
        ELSE IF direction = "outflow" /\ _contains_any(normalized, {"mol", "omv"})
        THEN strong("fuel keyword", "Leasing Fuel Expenses")
        ELSE IF direction = "outflow" /\ _contains_any(normalized, {"leasing"})
        THEN strong("leasing keyword", "Expenses for Car Leasing")
        ELSE IF direction = "outflow" /\ _contains_any(normalized, VENDOR_CAR_LEASING)
        THEN vendor("car leasing vendor", "Expenses for Car Leasing")
        ELSE IF direction = "outflow"
                /\ _contains_any(normalized, {"contabil", "contabilitate", "accounting", "expert"})
        THEN strong("accounting keyword", "Expeses for accountant")
        ELSE IF direction = "outflow" /\ _contains_any(normalized, VENDOR_ACCOUNTANT)
        THEN vendor("accountant vendor", "Expeses for accountant")
        ELSE IF direction = "inflow" /\ txn_type_code \in {Some("MOA"), Some("MOR")}
        THEN strong("inflow type code", "Revenue")
        ELSE IF direction = "inflow"
                /\ _contains_any(normalized, {"money added", "payment received", "incasare", "incasat"})
        THEN strong("inflow keyword", "Revenue")
        ELSE IF direction = "inflow"
        THEN weak("inflow fallback", "Revenue")
        ELSE IF direction = "outflow"
        THEN fallback("outflow fallback", "Other expenses")
        ELSE fallback("neutral fallback", "Other expenses")

\* a categorize that tries the fuel rule before every other rule
categorize_fuel_first(description, txn_type_code, direction, to_account, from_account) ==
    LET normalized == NormalizedText(description, to_account, from_account)
    IN  IF direction = "outflow" /\ _contains_any(normalized, {"mol", "omv"})
        THEN strong("fuel keyword", "Leasing Fuel Expenses")
        ELSE CategorizeRules(normalized, txn_type_code, direction)

categorize(description, txn_type_code, direction, to_account, from_account) ==
    CategorizeRules(NormalizedText(description, to_account, from_account),
                    txn_type_code, direction)

(***************************************************************************)
(* app/parser.py: _parse_transaction_chunk.  A chunk is given by what the  *)
(* code's regular expressions find in it:                                  *)
(*   date_line   DATE_LINE matches the first line                          *)
(*   date        the day _parse_date returns, None when dateutil raises    *)
(*   token3      the 4th space-separated token of the first line, if any   *)
(*   text        the remaining words of the chunk                          *)
(*   amounts     what AMOUNT_PATTERN finds on the first line, in cents     *)
(*   revolut_txn_id, to_account, from_account   the ID / account markers   *)
(*   fx          the groups of FX_RATE_PATTERN: base, quote, rate in       *)
(*               hundredths                                                *)
(* Decimal amounts are integers of cents; a rate is a fraction n / d.      *)
(***************************************************************************)
Letters ==
    {"a","b","c","d","e","f","g","h","i","j","k","l","m","n","o","p","q","r","s",
     "t","u","v","w","x","y","z"} \cup DOMAIN UpperToLower

\* str.isalpha()
IsAlpha(s) == s # "" /\ \A i \in 1..Len(s) : Char(s, i) \in Letters

Rate(n, d) == [n |-> n, d |-> d]

_detect_direction(text) ==
    IF \E token \in {"payment received", "money added", "incas", "received"} :
           Contains(Lower(text), token)
    THEN "inflow"
    ELSE "outflow"

\* the chunk's text as _detect_direction and the description see it (digits
\* and dates hold none of the keywords)
ChunkText(chunk) ==
    IF IsNone(chunk.token3) THEN chunk.text ELSE Val(chunk.token3) \o " " \o chunk.text

ChunkTypeCode(chunk) ==
    IF ~IsNone(chunk.token3) /\ IsAlpha(Val(chunk.token3)) THEN chunk.token3 ELSE None

ChunkFxRate(chunk) ==
    IF IsNone(chunk.fx) THEN None
    ELSE LET fx == Val(chunk.fx)
         IN  IF fx.base = "GBP" /\ fx.quote = "RON" THEN Some(Rate(fx.rate, 100))
             ELSE IF fx.base = "RON" /\ fx.quote = "GBP" /\ fx.rate # 0
                  THEN Some(Rate(100, fx.rate))
             ELSE None

\* lines 160-177: which of money_in / money_out gets the primary amount
ChunkMoney(chunk) ==
    LET amounts == chunk.amounts
        txn_type_code == ChunkTypeCode(chunk)
        n == Len(amounts)
        balance == IF n >= 2 THEN Some(amounts[n]) ELSE None
        inflow == _detect_direction(ChunkText(chunk)) = "inflow"
    IN  IF n >= 2
        THEN IF txn_type_code = Some("EXI")
             THEN [money_in |-> Some(amounts[n - 1]), money_out |-> None, balance |-> balance]
             ELSE IF txn_type_code = Some("EXO")
             THEN [money_in |-> None, money_out |-> Some(amounts[n - 1]), balance |-> balance]
             ELSE IF inflow
             THEN [money_in |-> Some(amounts[n - 1]), money_out |-> None, balance |-> balance]
             ELSE [money_in |-> None, money_out |-> Some(amounts[n - 1]), balance |-> balance]
        ELSE IF n = 1
        THEN IF inflow
             THEN [money_in |-> Some(amounts[1]), money_out |-> None, balance |-> balance]
             ELSE [money_in |-> None, money_out |-> Some(amounts[1]), balance |-> balance]
        ELSE [money_in |-> None, money_out |-> None, balance |-> None]

\* lines 179-188
ChunkDirection(txn_type_code, money) ==
    IF txn_type_code = Some("EXI") THEN "inflow"
    ELSE IF txn_type_code = Some("EXO") THEN "outflow"
    ELSE IF ~IsNone(money.money_in) THEN "inflow"
    ELSE IF ~IsNone(money.money_out) THEN "outflow"
    ELSE "neutral"

\* lines 190-198
ChunkAmount(money) ==
    IF ~IsNone(money.money_in) THEN Val(money.money_in)
    ELSE IF ~IsNone(money.money_out) THEN Val(money.money_out)
    ELSE 0

ChunkSignedAmount(money) ==
    IF ~IsNone(money.money_in) THEN Val(money.money_in)
    ELSE IF ~IsNone(money.money_out) THEN Val(money.money_out) * (-1)
    ELSE 0

ParseOk(txn) == [ok |-> TRUE, txn |-> txn, error |-> ""]
ParseError(message) == [ok |-> FALSE, txn |-> None, error |-> message]

_parse_transaction_chunk(chunk) ==
    IF ~chunk.date_line THEN ParseError("Chunk does not start with date")
    ELSE IF IsNone(chunk.date) THEN ParseError("Unknown string format")
    ELSE LET money == ChunkMoney(chunk)
             txn_type_code == ChunkTypeCode(chunk)
         IN  ParseOk(
               [txn_date_utc |-> Val(chunk.date),
                description_raw |-> Strip(CollapseSpaces(ChunkText(chunk))),
                txn_type_code |-> txn_type_code,
                revolut_txn_id |-> chunk.revolut_txn_id,
                from_account |-> chunk.from_account,
                to_account |-> chunk.to_account,
                money_out |-> money.money_out,
                money_in |-> money.money_in,
                balance |-> money.balance,
                direction |-> ChunkDirection(txn_type_code, money),
                amount |-> ChunkAmount(money),
                signed_amount |-> ChunkSignedAmount(money),
                fx_rate_applied |-> ChunkFxRate(chunk)])

(***************************************************************************)
(* app/parser.py: parse_pdf.  The document is the list of normalized lines *)
(* the pages give.  A line is known by the first pattern of the scan that  *)
(* matches it (kind) and by what that pattern captures: the account name   *)
(* or currency, the period of a "Transactions from" line (None when        *)
(* _parse_date rejects a date), the first line of a transaction (a line    *)
(* DATE_LINE matches) or the "ID:" of a detail line.                        *)
(***************************************************************************)
Line(kind, text, period, chunk, id) ==
    [kind |-> kind, text |-> text, period |-> period, chunk |-> chunk, id |-> id]

ScanStart ==
    [name |-> None, currency |-> None, iban |-> None, period |-> None,
     collecting |-> FALSE, collected |-> <<>>, blocks |-> <<>>, raised |-> FALSE]

AccountBlock(st) ==
    [account_name |-> Val(st.name), account_currency |-> Val(st.currency),
     account_iban |-> st.iban, period_start |-> Val(st.period)[1],
     period_end |-> Val(st.period)[2], lines |-> st.collected]

\* current_account_name and current_currency and current_period_start and current_period_end
BlockComplete(st) == ~IsNone(st.name) /\ ~IsNone(st.currency) /\ ~IsNone(st.period)

EmitBlock(st) ==
    IF BlockComplete(st) THEN [st EXCEPT !.blocks = Append(@, AccountBlock(st))] ELSE st

\* one pass of the loop body, lines 259-301
ScanLine(st, line) ==
    IF st.raised THEN st
    ELSE IF line.kind = "name" THEN [st EXCEPT !.name = Some(line.text)]
    ELSE IF line.kind = "currency" THEN [st EXCEPT !.currency = Some(line.text)]
    ELSE IF line.kind = "period"
    THEN IF IsNone(line.period) THEN [st EXCEPT !.raised = TRUE]
         ELSE [st EXCEPT !.period = line.period, !.collecting = FALSE, !.collected = <<>>]
    ELSE IF line.kind = "header" THEN [st EXCEPT !.collecting = TRUE]
    ELSE LET seen == IF line.kind = "iban" THEN [st EXCEPT !.iban = Some(line.text)] ELSE st
         IN  IF ~seen.collecting THEN seen
             ELSE IF line.kind = "terminator"
             THEN [EmitBlock(seen) EXCEPT !.collecting = FALSE, !.collected = <<>>]
             ELSE [seen EXCEPT !.collected = Append(@, line)]

RECURSIVE ScanLines(_, _)
ScanLines(st, lines) ==
    IF lines = <<>> THEN st ELSE ScanLines(ScanLine(st, Head(lines)), Tail(lines))

\* a scan that emits what it holds at the end of the input whether or not
\* collection is on
ScanDocument_flush_always(lines) ==
    LET st == ScanLines(ScanStart, lines)
    IN  IF st.raised THEN st ELSE EmitBlock(st)

\* lines 250-313: the account blocks of a document, or raised
ScanDocument(lines) ==
    LET st == ScanLines(ScanStart, lines)
    IN  IF st.raised THEN st
        ELSE IF st.collecting THEN EmitBlock(st) ELSE st

\* _split_transactions: a chunk starts at every line DATE_LINE matches; the
\* lines before the first such line belong to no chunk
RECURSIVE SplitFrom(_, _, _)
SplitFrom(lines, chunks, current) ==
    IF lines = <<>> THEN IF current # <<>> THEN Append(chunks, current) ELSE chunks
    ELSE IF Head(lines).kind = "txn"
    THEN SplitFrom(Tail(lines), IF current # <<>> THEN Append(chunks, current) ELSE chunks,
                   <<Head(lines)>>)
    ELSE SplitFrom(Tail(lines), chunks,
                   IF current # <<>> THEN Append(current, Head(lines)) ELSE current)

_split_transactions(lines) == SplitFrom(lines, <<>>, <<>>)

\* the joined chunk as _parse_transaction_chunk reads it: the first line's
\* fields and the first "ID:" of any of its lines
ChunkOf(chunk_lines) ==
    LET ids == {k \in DOMAIN chunk_lines : ~IsNone(chunk_lines[k].id)}
    IN  [Val(chunk_lines[1].chunk) EXCEPT
            !.revolut_txn_id = IF ids = {} THEN None ELSE chunk_lines[MinOf(ids)].id]

BlockFields(block) ==
    [account_name |-> block.account_name, account_currency |-> block.account_currency,
     account_iban |-> block.account_iban, period_start |-> block.period_start,
     period_end |-> block.period_end]

\* the try branch, lines 322-332
AppendParsed(acc, block, parsed) ==
    [acc EXCEPT !.transactions = Append(@, BlockFields(block) @@ parsed)]

\* the except branch that gives the failure up and goes on without a record
AppendFailure_silent(acc, block, message) == acc

\* the except branch, lines 333-334
AppendFailure(acc, block, message) ==
    [acc EXCEPT !.parse_errors = Append(@, block.account_currency \o ": " \o message)]

RECURSIVE ParseChunks(_, _, _)
ParseChunks(acc, block, chunks) ==
    IF chunks = <<>> THEN acc
    ELSE LET parsed == _parse_transaction_chunk(ChunkOf(Head(chunks)))
         IN  ParseChunks(IF parsed.ok THEN AppendParsed(acc, block, parsed.txn)
                         ELSE AppendFailure(acc, block, parsed.error),
                         block, Tail(chunks))

RECURSIVE ParseBlocks(_, _)
ParseBlocks(acc, blocks) ==
    IF blocks = <<>> THEN acc
    ELSE ParseBlocks(ParseChunks(acc, Head(blocks), _split_transactions(Head(blocks).lines)),
                     Tail(blocks))

\* "partial" if parse_errors else "success"
ParseStatus(parse_errors) == IF parse_errors # <<>> THEN "partial" ELSE "success"

PdfRaised(error) ==
    [status |-> error, accounts_found |-> <<>>, transactions |-> <<>>,
     parse_errors |-> <<>>, parse_status |-> ""]

parse_pdf(lines) ==
    LET scan == ScanDocument(lines)
    IN  IF scan.raised THEN PdfRaised("ParserError")
        ELSE LET acc == ParseBlocks([transactions |-> <<>>, parse_errors |-> <<>>], scan.blocks)
             IN  [status |-> "ok",
                  accounts_found |-> [k \in DOMAIN scan.blocks |-> BlockFields(scan.blocks[k])],
                  transactions |-> acc.transactions,
                  parse_errors |-> acc.parse_errors,
                  parse_status |-> ParseStatus(acc.parse_errors)]

(***************************************************************************)
(* app/main.py: _postprocess_transfers.  rows is the sequence the query    *)
(* returns; a row is addressed by its position.  Money is in cents, a rate *)
(* is a fraction n / d, and float arithmetic is taken as exact.            *)
(***************************************************************************)
ToleranceUnits == 5
CentsPerUnit == 100

Abs(x) == IF x < 0 THEN -x ELSE x

\* txn.revolut_txn_id or txn.id
ProvisionalGroup(txn) ==
    IF ~IsNone(txn.revolut_txn_id) THEN txn.revolut_txn_id ELSE Some(txn.id)

\* the rows the query of lines 74-82 returns, among the statement's rows
QueryTransfers(rows) == {i \in DOMAIN rows : rows[i].txn_type_code \in {"EXI", "EXO"}}

SetProvisionalGroups(rows) ==
    [i \in DOMAIN rows |->
        IF i \in QueryTransfers(rows)
        THEN [rows[i] EXCEPT !.transfer_group_id = ProvisionalGroup(rows[i])]
        ELSE rows[i]]

ExoGbp(rows) ==
    {i \in DOMAIN rows : /\ rows[i].txn_type_code = "EXO"
                         /\ rows[i].account_currency = "GBP"
                         /\ ~IsNone(rows[i].money_out)}

ExiRon(rows) ==
    {i \in DOMAIN rows : /\ rows[i].txn_type_code = "EXI"
                         /\ rows[i].account_currency = "RON"
                         /\ ~IsNone(rows[i].money_in)}

\* candidates that may have been consumed already
Candidates_reused(rows, exo, used) ==
    {j \in ExiRon(rows) : rows[j].txn_date_utc = rows[exo].txn_date_utc}

\* [t for t in exi_ron if t.id not in used_exi and t.txn_date_utc == exo.txn_date_utc]
Candidates(rows, exo, used) ==
    {j \in ExiRon(rows) : j \notin used /\ rows[j].txn_date_utc = rows[exo].txn_date_utc}

\* a rate borrowed from the candidates before the outbound leg's own is looked at
AppliedRate_borrow_first(rows, exo, candidates) ==
    LET rated == {j \in candidates : ~IsNone(rows[j].fx_rate_applied)}
    IN  IF rated # {} THEN rows[MinOf(rated)].fx_rate_applied
        ELSE rows[exo].fx_rate_applied

\* exo.fx_rate_applied, else the rate of the first candidate that has one
AppliedRate(rows, exo, candidates) ==
    IF ~IsNone(rows[exo].fx_rate_applied) THEN rows[exo].fx_rate_applied
    ELSE LET rated == {j \in candidates : ~IsNone(rows[j].fx_rate_applied)}
         IN  IF rated = {} THEN None ELSE rows[MinOf(rated)].fx_rate_applied

\* abs(float(t.money_in) - expected_ron), times the rate's denominator
Distance(money_in, money_out, rate) == Abs(money_in * rate.d - money_out * rate.n)

\* min(candidates, key=...): the first of the nearest candidates
Best(rows, exo, candidates, rate) ==
    LET dist(j) == Distance(Val(rows[j].money_in), Val(rows[exo].money_out), rate)
        nearest == {j \in candidates : \A k \in candidates : dist(j) <= dist(k)}
    IN  MinOf(nearest)

\* a reconciler that accepts the nearest candidate however far it is
WithinTolerance_any(money_in, money_out, rate) == TRUE

\* not (abs(float(best.money_in) - expected_ron) > 5)
WithinTolerance(money_in, money_out, rate) ==
    ~(Distance(money_in, money_out, rate) > ToleranceUnits * CentsPerUnit * rate.d)

\* a group id that prefers the inbound leg's external id
PairGroup_inbound_first(exo_txn, best_txn) ==
    IF ~IsNone(best_txn.revolut_txn_id) THEN best_txn.revolut_txn_id
    ELSE IF ~IsNone(exo_txn.revolut_txn_id) THEN exo_txn.revolut_txn_id
    ELSE Some(exo_txn.id)

\* exo.revolut_txn_id or best.revolut_txn_id or exo.id
PairGroup(exo_txn, best_txn) ==
    IF ~IsNone(exo_txn.revolut_txn_id) THEN exo_txn.revolut_txn_id
    ELSE IF ~IsNone(best_txn.revolut_txn_id) THEN best_txn.revolut_txn_id
    ELSE Some(exo_txn.id)

\* the loss taken from the side of the inbound leg
LossRon_inbound(official, gbp_amount, ron_amount) ==
    Rate(ron_amount * official.d - official.n * gbp_amount, official.d)

\* (official_rate * gbp_amount) - ron_amount, as a fraction of cents
LossRon(official, gbp_amount, ron_amount) ==
    Rate(official.n * gbp_amount - ron_amount * official.d, official.d)

LogEntry(exo, outcome, best, rate) ==
    [exo |-> exo, outcome |-> outcome, best |-> best, rate |-> rate]

\* one iteration of "for exo in exo_gbp", lines 92-124
ReconcileOne(st, exo, official) ==
    LET rows == st.rows
        candidates == Candidates(rows, exo, st.used)
        applied == AppliedRate(rows, exo, candidates)
    IN  IF candidates = {}
        THEN [st EXCEPT !.log = Append(@, LogEntry(exo, "no candidates", 0, None))]
        ELSE IF IsNone(applied)
        THEN [st EXCEPT !.log = Append(@, LogEntry(exo, "no rate", 0, None))]
        ELSE LET rate == Val(applied)
                 best == Best(rows, exo, candidates, rate)
                 group_id == PairGroup(rows[exo], rows[best])
                 grouped == [rows EXCEPT ![exo].transfer_group_id = group_id,
                                         ![best].transfer_group_id = group_id]
                 official_rate == official[rows[exo].txn_date_utc]
                 loss == LossRon(Val(official_rate), Val(rows[exo].money_out),
                                 Val(rows[best].money_in))
                 priced == [i \in DOMAIN rows |->
                              IF i \in {exo, best}
                              THEN [grouped[i] EXCEPT !.fx_rate_official = official_rate,
                                                      !.fx_rate_applied = applied,
                                                      !.fx_loss_ron = Some(loss)]
                              ELSE grouped[i]]
             IN  IF ~WithinTolerance(Val(rows[best].money_in), Val(rows[exo].money_out), rate)
                 THEN [st EXCEPT !.log = Append(@, LogEntry(exo, "too far", best, applied))]
                 ELSE IF IsNone(official_rate)
                 THEN [rows |-> grouped, used |-> st.used \cup {best},
                       log |-> Append(st.log, LogEntry(exo, "grouped", best, applied))]
                 ELSE [rows |-> priced, used |-> st.used \cup {best},
                       log |-> Append(st.log, LogEntry(exo, "priced", best, applied))]

RECURSIVE ReconcileFrom(_, _, _)
ReconcileFrom(st, todo, official) ==
    IF todo = {} THEN st
    ELSE LET exo == MinOf(todo)
         IN  ReconcileFrom(ReconcileOne(st, exo, official), todo \ {exo}, official)

_postprocess_transfers(rows, official) ==
    LET start == SetProvisionalGroups(rows)
    IN  ReconcileFrom([rows |-> start, used |-> {}, log |-> <<>>], ExoGbp(start), official)

(***************************************************************************)
(* app/metrics.py: compute_monthly_metrics.  A row is a Transaction joined *)
(* with its Statement's include_in_metrics.  Amounts are cents.  A rate is *)
(* a fraction n / d; every rate of the rate map has the denominator        *)
(* RateDen, so a converted amount is kept as its numerator over RateDen.   *)
(* A month is counted in months since year 0 (year * 12 + month - 1).      *)
(***************************************************************************)
RateDen == 100

CATEGORY_MAP ==
    [c \in {"Revenue", "Expenses towards government (taxes)", "Expeses for accountant",
            "Expenses for Car Leasing", "Leasing Fuel Expenses", "Expenses for employees",
            "Paid dividends", "Other expenses", "Internal transfer"} |->
        CASE c = "Revenue" -> "revenue_total"
          [] c = "Expenses towards government (taxes)" -> "taxes_total"
          [] c = "Expeses for accountant" -> "accountant_total"
          [] c = "Expenses for Car Leasing" -> "car_leasing_total"
          [] c = "Leasing Fuel Expenses" -> "leasing_fuel_total"
          [] c = "Expenses for employees" -> "employees_total"
          [] c = "Paid dividends" -> "dividends_total"
          [] c = "Other expenses" -> "other_expenses_total"
          [] c = "Internal transfer" -> "transfers_total"]

TotalKeys == {CATEGORY_MAP[c] : c \in DOMAIN CATEGORY_MAP}

\* expenses that also count the Internal transfer category total
ExpenseKeys_with_transfers ==
    {"taxes_total", "accountant_total", "car_leasing_total", "leasing_fuel_total",
     "employees_total", "dividends_total", "other_expenses_total", "transfers_total"}

\* the totals summed into total_expenses_operational, lines 176-185 and 262-271
ExpenseKeys ==
    {"taxes_total", "accountant_total", "car_leasing_total", "leasing_fuel_total",
     "employees_total", "dividends_total", "other_expenses_total"}

\* sum(f[x] for x in S)
RECURSIVE SumOver(_, _)
SumOver(S, f) ==
    IF S = {} THEN 0
    ELSE LET x == CHOOSE y \in S : TRUE IN f[x] + SumOver(S \ {x}, f)

\* round(n / d) to the nearest integer, ties to even (Python's round)
RoundHalfEven(n, d) ==
    LET q == n \div d
        r == n - q * d
    IN  IF 2 * r < d THEN q
        ELSE IF 2 * r > d THEN q + 1
        ELSE IF q % 2 = 0 THEN q ELSE q + 1

DigitValue ==
    [c \in {"0","1","2","3","4","5","6","7","8","9"} |->
        CASE c = "0" -> 0 [] c = "1" -> 1 [] c = "2" -> 2 [] c = "3" -> 3 [] c = "4" -> 4
          [] c = "5" -> 5 [] c = "6" -> 6 [] c = "7" -> 7 [] c = "8" -> 8 [] c = "9" -> 9]

IsDigits(s) == \A i \in 1..Len(s) : Char(s, i) \in DOMAIN DigitValue

RECURSIVE ToNumber(_)
ToNumber(s) ==
    IF s = "" THEN 0
    ELSE ToNumber(SubSeq(s, 1, Len(s) - 1)) * 10 + DigitValue[Char(s, Len(s))]

\* a parser that reads every string as January 2024
_parse_month_lenient(raw) == Some(2024 * 12)

\* _parse_month: the first month of the range a string names, None when it
\* raises ValueError (no match, or a month date.fromisoformat rejects).
\* Collapsing inner whitespace first leaves at least one space where there
\* was any, so the fullmatch decides as it does on value.strip().
_parse_month(raw) ==
    LET value == Strip(CollapseSpaces(raw))
    IN  IF /\ Len(value) = 7
           /\ IsDigits(SubSeq(value, 1, 4))
           /\ Char(value, 5) = "-"
           /\ IsDigits(SubSeq(value, 6, 7))
        THEN LET year == ToNumber(SubSeq(value, 1, 4))
                 month == ToNumber(SubSeq(value, 6, 7))
             IN  IF year >= 1 /\ month \in 1..12 THEN Some(year * 12 + month - 1) ELSE None
        ELSE IF Len(value) = 4 /\ IsDigits(value)
        THEN IF ToNumber(value) >= 1 THEN Some(ToNumber(value) * 12) ELSE None
        ELSE None

\* a rate map that counts a currency without a rate at 1.0
RateToday_missing_as_one(rates, currency) ==
    IF currency = "RON" \/ IsNone(rates[currency])
    THEN Some(Rate(RateDen, RateDen)) ELSE rates[currency]

\* metrics._fetch_bnr_rate(date.today(), currency) as _build_rate_map sees it
RateToday(rates, currency) == IF currency = "RON" THEN Some(Rate(RateDen, RateDen)) ELSE rates[currency]

\* a resolution that lets the override win over the transfer flag
resolve_category_override_first(txn, use_overrides) ==
    IF use_overrides /\ ~IsNone(txn.category_override) /\ Val(txn.category_override) # ""
    THEN Val(txn.category_override)
    ELSE IF txn.is_internal_transfer THEN "Internal transfer" ELSE txn.category

resolve_category(txn, use_overrides) ==
    IF txn.is_internal_transfer THEN "Internal transfer"
    ELSE IF use_overrides /\ ~IsNone(txn.category_override) /\ Val(txn.category_override) # ""
         THEN Val(txn.category_override)
         ELSE txn.category

effective_amount(txn) ==
    LET base == IF ~IsNone(txn.amount_override) THEN Val(txn.amount_override) ELSE txn.amount
    IN  IF txn.sign_override = Some(TRUE) THEN -base ELSE base

\* a query without the include_in_metrics condition
SelectedRows_unfiltered(rows, currency, from_date, to_date) ==
    {i \in DOMAIN rows : /\ (currency # "all" => rows[i].account_currency = currency)
                         /\ rows[i].month >= from_date
                         /\ rows[i].month <= to_date}

\* the rows the query selects, lines 86-99, as positions of rows
SelectedRows(rows, currency, from_date, to_date) ==
    {i \in DOMAIN rows : /\ rows[i].include_in_metrics
                         /\ (currency # "all" => rows[i].account_currency = currency)
                         /\ rows[i].month >= from_date
                         /\ rows[i].month <= to_date}

\* the sums the loop over one (currency, month) group builds
GroupTotal(rows, group, key, use_overrides) ==
    LET members == {i \in group : CATEGORY_MAP[resolve_category(rows[i], use_overrides)] = key}
    IN  SumOver(members, [i \in members |-> effective_amount(rows[i])])

GroupTransfersIn(rows, group) ==
    LET members == {i \in group : rows[i].is_internal_transfer /\ rows[i].direction = "inflow"}
    IN  SumOver(members, [i \in members |-> Abs(effective_amount(rows[i]))])

GroupTransfersOut(rows, group) ==
    LET members == {i \in group : rows[i].is_internal_transfer /\ rows[i].direction # "inflow"}
    IN  SumOver(members, [i \in members |-> Abs(effective_amount(rows[i]))])

GroupNeedsReview(rows, group) == Cardinality({i \in group : rows[i].needs_review})

GroupCounts(rows, group, use_overrides) ==
    [c \in {resolve_category(rows[i], use_overrides) : i \in group} |->
        Cardinality({i \in group : resolve_category(rows[i], use_overrides) = c})]

GroupOf(rows, selected, currency, month) ==
    {i \in selected : rows[i].account_currency = currency /\ rows[i].month = month}

\* sorted(S) for a set of integers
RECURSIVE SortedSeq(_)
SortedSeq(S) == IF S = {} THEN <<>> ELSE <<MinOf(S)>> \o SortedSeq(S \ {MinOf(S)})

\* round(value, 2) of an amount kept as a numerator over RateDen
Round2(numerator) == RoundHalfEven(numerator, RateDen)

RECURSIVE Gcd(_, _)
Gcd(a, b) == IF b = 0 THEN a ELSE Gcd(b, a % b)

\* a fraction in lowest terms, the value a float holds whatever its derivation
Reduce(rate) ==
    LET g == Gcd(Abs(rate.n), rate.d)
    IN  IF g = 0 THEN rate ELSE Rate(rate.n \div g, rate.d \div g)

\* round(rate, 4) if rate else None, in ten-thousandths
Round4(rate) ==
    IF IsNone(rate) \/ Val(rate).n = 0 THEN None
    ELSE Some(RoundHalfEven(Reduce(Val(rate)).n * 10000, Reduce(Val(rate)).d))

\* --- currency == "all", lines 113-227 ---
\* the currencies of a month whose group reaches the bucket (rate is not None)
ConvertedCurrencies(rows, selected, rates, month) ==
    {c \in {rows[i].account_currency : i \in selected} :
        GroupOf(rows, selected, c, month) # {} /\ ~IsNone(RateToday(rates, c))}

AllTotal(rows, selected, rates, month, key, use_overrides) ==
    LET cs == ConvertedCurrencies(rows, selected, rates, month)
    IN  SumOver(cs, [c \in cs |->
            GroupTotal(rows, GroupOf(rows, selected, c, month), key, use_overrides)
                * Val(RateToday(rates, c)).n])

AllTransfersInRon(rows, selected, rates, month) ==
    LET cs == ConvertedCurrencies(rows, selected, rates, month)
    IN  SumOver(cs, [c \in cs |->
            GroupTransfersIn(rows, GroupOf(rows, selected, c, month))
                * Val(RateToday(rates, c)).n])

\* the groups whose transfers-out stay in the original currency, lines 162-164
OutCurrencies(rows, selected, rates, month) ==
    {c \in ConvertedCurrencies(rows, selected, rates, month) :
        c # "RON" /\ GroupTransfersOut(rows, GroupOf(rows, selected, c, month)) > 0}

AllTransfersOutOriginal(rows, selected, rates, month) ==
    LET cs == OutCurrencies(rows, selected, rates, month)
    IN  SumOver(cs, [c \in cs |-> GroupTransfersOut(rows, GroupOf(rows, selected, c, month))])

\* the currency of the last such group, in the order the groups were first met
AllTransfersOutCurrency(rows, selected, rates, month) ==
    LET cs == OutCurrencies(rows, selected, rates, month)
        first(c) == MinOf(GroupOf(rows, selected, c, month))
    IN  IF cs = {} THEN None
        ELSE Some(CHOOSE c \in cs : \A o \in cs : first(c) >= first(o))

\* transfers_in_ron / transfers_out_original if transfers_out_original > 0
AllAvgFxRate(transfers_in_ron, transfers_out_original) ==
    IF transfers_out_original > 0
    THEN Some(Rate(transfers_in_ron, RateDen * transfers_out_original))
    ELSE None

\* the transfer-out volume taken at par instead of at the month's blended rate
AllTransfersOutRon_at_par(transfers_in_ron, transfers_out_original) ==
    transfers_out_original * RateDen

\* transfers_out_original * avg_fx_rate if avg_fx_rate and transfers_out_original > 0
AllTransfersOutRon(transfers_in_ron, transfers_out_original) ==
    LET avg == AllAvgFxRate(transfers_in_ron, transfers_out_original)
    IN  IF ~IsNone(avg) /\ Val(avg).n # 0 /\ transfers_out_original > 0
        THEN transfers_in_ron
        ELSE 0

\* revenue of the categories alone, the transfers left out
AllRevenueTotal_categories_only(category_revenue, transfers_in_ron) == category_revenue

AllRevenueTotal(category_revenue, transfers_in_ron) == category_revenue + transfers_in_ron

\* the values of one month before rounding, as numerators over RateDen
AllRaw(rows, selected, rates, month, use_overrides) ==
    LET totals == [k \in TotalKeys |-> AllTotal(rows, selected, rates, month, k, use_overrides)]
        tin == AllTransfersInRon(rows, selected, rates, month)
        tout == AllTransfersOutOriginal(rows, selected, rates, month)
        tout_ron == AllTransfersOutRon(tin, tout)
        revenue == AllRevenueTotal(totals["revenue_total"], tin)
        expenses == SumOver(ExpenseKeys, totals) + tout_ron
    IN  [totals |-> totals, transfers_in_ron |-> tin, transfers_out_original |-> tout,
         transfers_out_ron |-> tout_ron, revenue_total |-> revenue,
         total_expenses_operational |-> expenses,
         net_income_operational |-> revenue - expenses]

AllPoint(rows, selected, rates, month, use_overrides) ==
    LET raw == AllRaw(rows, selected, rates, month, use_overrides)
        cs == ConvertedCurrencies(rows, selected, rates, month)
        members == {i \in selected : rows[i].month = month /\ rows[i].account_currency \in cs}
    IN  [month |-> month, currency |-> "RON",
         totals |-> [k \in TotalKeys |->
                        Round2(IF k = "revenue_total" THEN raw.revenue_total ELSE raw.totals[k])],
         transfers_in_ron |-> Round2(raw.transfers_in_ron),
         transfers_out_original |-> raw.transfers_out_original,
         transfers_out_currency |-> AllTransfersOutCurrency(rows, selected, rates, month),
         avg_fx_rate |-> Round4(AllAvgFxRate(raw.transfers_in_ron, raw.transfers_out_original)),
         total_expenses_operational |-> Round2(raw.total_expenses_operational),
         net_income_operational |-> Round2(raw.net_income_operational),
         net_cash_after_dividends |-> Round2(raw.net_income_operational),
         counts_by_category |-> GroupCounts(rows, members, use_overrides),
         needs_review_count |-> GroupNeedsReview(rows, members)]

AllPoints(rows, selected, rates, use_overrides) ==
    LET months == {m \in {rows[i].month : i \in selected} :
                       ConvertedCurrencies(rows, selected, rates, m) # {}}
        sorted == SortedSeq(months)
    IN  [k \in DOMAIN sorted |-> AllPoint(rows, selected, rates, sorted[k], use_overrides)]

\* --- one currency, lines 229-309 ---
FracAdd(a, b) == Reduce(Rate(a.n * b.d + b.n * a.d, a.d * b.d))

RECURSIVE WeightedRateSum(_, _)
WeightedRateSum(rows, members) ==
    IF members = {} THEN Rate(0, 1)
    ELSE LET i == CHOOSE j \in members : TRUE
             r == Val(rows[i].fx_rate_applied)
         IN  FracAdd(Reduce(Rate(Abs(effective_amount(rows[i])) * r.n, r.d)),
                     WeightedRateSum(rows, members \ {i}))

\* sum(w * r) / total_weight if total_weight > 0
SingleAvgFxRate(rows, group) ==
    LET rated == {i \in group : /\ rows[i].is_internal_transfer
                                /\ ~IsNone(rows[i].fx_rate_applied)
                                /\ Val(rows[i].fx_rate_applied).n # 0}
        total_weight == SumOver(rated, [i \in rated |-> Abs(effective_amount(rows[i]))])
        weighted == WeightedRateSum(rows, rated)
    IN  IF total_weight > 0
        THEN LET g == Gcd(weighted.n, total_weight)
             IN  Some(Reduce(Rate(weighted.n \div g, weighted.d * (total_weight \div g))))
        ELSE None

SingleRevenueTotal(category_revenue, transfers_in) == category_revenue + transfers_in

\* the values of one group before rounding, in cents
SingleRaw(rows, group, use_overrides) ==
    LET totals == [k \in TotalKeys |-> GroupTotal(rows, group, k, use_overrides)]
        tin == GroupTransfersIn(rows, group)
        tout == GroupTransfersOut(rows, group)
        revenue == SingleRevenueTotal(totals["revenue_total"], tin)
        expenses == SumOver(ExpenseKeys, totals) + tout
    IN  [totals |-> totals, transfers_in |-> tin, transfers_out |-> tout,
         revenue_total |-> revenue, total_expenses_operational |-> expenses,
         net_income_operational |-> revenue - expenses]

\* round(value, 2) of an amount of whole cents
SinglePoint(rows, group, currency, month, use_overrides) ==
    LET raw == SingleRaw(rows, group, use_overrides)
    IN  [month |-> month, currency |-> currency,
         totals |-> [k \in TotalKeys |->
                        IF k = "revenue_total" THEN raw.revenue_total ELSE raw.totals[k]],
         transfers_in |-> raw.transfers_in,
         transfers_out |-> raw.transfers_out,
         avg_fx_rate |-> Round4(SingleAvgFxRate(rows, group)),
         total_expenses_operational |-> raw.total_expenses_operational,
         net_income_operational |-> raw.net_income_operational,
         net_cash_after_dividends |-> raw.net_income_operational,
         counts_by_category |-> GroupCounts(rows, group, use_overrides),
         needs_review_count |-> GroupNeedsReview(rows, group)]

SinglePoints(rows, selected, currency, use_overrides) ==
    LET sorted == SortedSeq({rows[i].month : i \in selected})
    IN  [k \in DOMAIN sorted |->
            SinglePoint(rows, GroupOf(rows, selected, currency, sorted[k]), currency,
                        sorted[k], use_overrides)]

MetricsOk(points) == [status |-> "ok", points |-> points]
MetricsRaised(error) == [status |-> error, points |-> <<>>]

compute_monthly_metrics(rows, rates, args) ==
    LET from_date == _parse_month(args.from_month)
        to_date == _parse_month(args.to_month)
    IN  IF IsNone(from_date) \/ IsNone(to_date) THEN MetricsRaised("ValueError")
        ELSE LET selected == SelectedRows(rows, args.currency, Val(from_date), Val(to_date))
             IN  IF \E i \in selected :
                        resolve_category(rows[i], args.use_overrides) \notin DOMAIN CATEGORY_MAP
                 THEN MetricsRaised("KeyError")
                 ELSE IF args.currency = "all"
                 THEN MetricsOk(AllPoints(rows, selected, rates, args.use_overrides))
                 ELSE MetricsOk(SinglePoints(rows, selected, args.currency, args.use_overrides))

\* --- compute_summary, lines 312-366 ---
SummedKeys ==
    TotalKeys \cup {"total_expenses_operational", "net_income_operational",
                    "net_cash_after_dividends"}

\* row[key] of a metric point
PointField(point, key) == IF key \in TotalKeys THEN point.totals[key] ELSE point[key]

\* sum(f(points[k]) for k in 1..Len(points))
RECURSIVE SumSeq(_, _)
SumSeq(points, f) ==
    IF points = <<>> THEN 0
    ELSE f[Len(points)] + SumSeq(SubSeq(points, 1, Len(points) - 1), f)

\* the points with "transfers_in_ron" in row, and those with "transfers_in"
HasRonFields(point) == "transfers_in_ron" \in DOMAIN point
HasOwnFields(point) == ~HasRonFields(point) /\ "transfers_in" \in DOMAIN point

\* round(totals["transfers_in_ron"] / transfers_out_orig, 4) if transfers_out_orig > 0,
\* in ten-thousandths
SummaryAvgFxRate(transfers_in_ron, transfers_out_original, transfers_in, transfers_out) ==
    IF transfers_out_original > 0
    THEN LET r == Reduce(Rate(transfers_in_ron, transfers_out_original))
         IN  Some(RoundHalfEven(r.n * 10000, r.d))
    ELSE None

\* the dict compute_summary returns; a key the loop never touched reads 0
compute_summary(metrics) ==
    LET n == Len(metrics)
        sum(key) == SumSeq(metrics, [k \in 1..n |-> PointField(metrics[k], key)])
        ron(key) == SumSeq(metrics, [k \in 1..n |->
                        IF HasRonFields(metrics[k]) THEN metrics[k][key] ELSE 0])
        own(key) == SumSeq(metrics, [k \in 1..n |->
                        IF HasOwnFields(metrics[k]) THEN metrics[k][key] ELSE 0])
        named == {k \in 1..n : /\ HasRonFields(metrics[k])
                               /\ metrics[k].transfers_out_currency \notin {None, Some("")}}
    IN  [totals |-> [key \in SummedKeys |-> sum(key)],
         transfers_in_ron |-> ron("transfers_in_ron"),
         transfers_out_original |-> ron("transfers_out_original"),
         transfers_in |-> own("transfers_in"),
         transfers_out |-> own("transfers_out"),
         transfers_out_currency |->
             IF named = {} THEN None
             ELSE metrics[CHOOSE k \in named : \A j \in named : j <= k].transfers_out_currency,
         needs_review_count |->
             SumSeq(metrics, [k \in 1..n |-> metrics[k].needs_review_count]),
         avg_fx_rate |-> SummaryAvgFxRate(ron("transfers_in_ron"), ron("transfers_out_original"),
                                          own("transfers_in"), own("transfers_out"))]

\* --- app/main.py: the metrics endpoints, lines 444-483 ---
MetricsRequest(op, args) ==
    [op |-> op, file_name |-> "", content |-> "", target |-> 0, args |-> args]

MetricsResponse(request, status, items, totals) ==
    [request |-> request, status |-> status, statement_id |-> None,
     items |-> items, totals |-> totals]

\* metrics_monthly: the series, 400 for a ValueError, 500 for any other exception
metrics_monthly(rows, rates, args) ==
    LET result == compute_monthly_metrics(rows, rates, args)
        request == MetricsRequest("metrics_monthly", args)
    IN  IF result.status = "ValueError"
        THEN MetricsResponse(request, 400, <<>>, None)
        ELSE IF result.status # "ok" THEN MetricsResponse(request, 500, <<>>, None)
        ELSE MetricsResponse(request, 200, result.points, None)

\* metrics_summary: the same call, then compute_summary over its points
metrics_summary(rows, rates, args) ==
    LET result == compute_monthly_metrics(rows, rates, args)
        request == MetricsRequest("metrics_summary", args)
    IN  IF result.status = "ValueError"
        THEN MetricsResponse(request, 400, <<>>, None)
        ELSE IF result.status # "ok" THEN MetricsResponse(request, 500, <<>>, None)
        ELSE MetricsResponse(request, 200, <<>>, Some(compute_summary(result.points)))

(***************************************************************************)
(* _fetch_bnr_rate of app/main.py and of app/metrics.py, step by step.     *)
(* The two modules hold the same function over separate caches; the one    *)
(* of metrics.py answers 1.0 for RON before anything else.  A rate is in   *)
(* hundredths.  A caller is at "start" (before the cache test), in the     *)
(* "loop" (before the query of date - offset), at "store" (a rate parsed,  *)
(* before the cache write), or "done" (returned).                          *)
(***************************************************************************)
FallbackDays == 10

Callers == {"a", "b"}

IdleCaller ==
    [pc |-> "idle", date |-> 0, currency |-> "", offset |-> 0, cached |-> FALSE,
     queries |-> <<>>, pending |-> None, result |-> None]

\* the Rate element of the currency in the document of that day, if any
SourceAnswer(source, day, currency) ==
    IF currency = "GBP" /\ day \in DOMAIN source THEN source[day] ELSE None

\* a day after the requested one
LookupDate_forward(rate_date, offset) == rate_date + offset

\* lookup_date = rate_date - timedelta(days=offset)
LookupDate(rate_date, offset) == rate_date - offset

CacheKey(rate_date, currency) == <<rate_date, currency>>

\* a write that rebinds the cache to a dict of the one entry
CachePut_replace(cache, key, value) == [k \in {key} |-> value]

\* _BNR_RATE_CACHE[cache_key] = rate
CachePut(cache, key, value) ==
    [k \in DOMAIN cache \cup {key} |-> IF k = key THEN value ELSE cache[k]]

\* a write under the day the rate was found on
StoreKey_found(caller) == CacheKey(LookupDate(caller.date, caller.offset), caller.currency)

\* the key of the write: cache_key, built from the arguments before the loop
StoreKey(caller) == CacheKey(caller.date, caller.currency)

\* the first lines of the function: the RON answer of metrics.py and the cache test
FetchStartOf(caller, impl, cache) ==
    LET key == CacheKey(caller.date, caller.currency)
    IN  IF impl = "metrics" /\ caller.currency = "RON"
        THEN [caller EXCEPT !.pc = "done", !.result = Some(RateDen)]
        ELSE IF key \in DOMAIN cache
        THEN [caller EXCEPT !.pc = "done", !.cached = TRUE, !.result = Some(cache[key])]
        ELSE [caller EXCEPT !.pc = "loop", !.offset = 0]

\* a loop without the except branch: a query that raises ends the call
FetchQueryOf_unguarded(caller, published, answer) ==
    [caller EXCEPT !.pc = IF IsNone(answer) THEN "raised" ELSE "store", !.pending = answer]

\* one pass of the loop: the query of one day answered by answer (None when
\* the document lacks the currency, or when the try block raises)
FetchQueryOf(caller, published, answer) ==
    LET day == LookupDate(caller.date, caller.offset)
        logged == Append(caller.queries,
                         [day |-> day, published |-> published, answer |-> answer])
    IN  IF ~IsNone(answer)
        THEN [caller EXCEPT !.queries = logged, !.pc = "store", !.pending = answer]
        ELSE IF caller.offset + 1 < FallbackDays
        THEN [caller EXCEPT !.queries = logged, !.offset = @ + 1]
        ELSE [caller EXCEPT !.queries = logged, !.offset = @ + 1, !.pc = "done",
                            !.result = None]

(***************************************************************************)
(* app/main.py: the statement handlers over the database and UPLOAD_DIR.   *)
(* A content is the bytes of a file; Files gives what pdfplumber reads     *)
(* from it.  A primary key (uuid4) is a number never drawn before; the     *)
(* external transaction ids of the documents are numbers from 900 up.      *)
(* A handler body has no await after file.read(), so it runs as one step.  *)
(***************************************************************************)
\* hashlib.sha256(data).hexdigest(): equal for equal bytes, distinct otherwise
Sha256(content) == "sha256:" \o content

\* file.filename.lower().endswith(".pdf")
IsPdfName(file_name) ==
    LET lowered == Lower(file_name)
    IN  Len(lowered) >= 4 /\ SubSeq(lowered, Len(lowered) - 3, Len(lowered)) = ".pdf"

\* parse_pdf(path) on a stored file, lines 237-354
ParseFile(file) ==
    IF ~file.readable THEN PdfRaised("PDFSyntaxError")
    ELSE parse_pdf(file.lines)

\* a request (what the client sent) and the response to it
Request(op, file_name, content, target) ==
    [op |-> op, file_name |-> file_name, content |-> content, target |-> target]

Response(request, status, statement_id) ==
    [request |-> request, status |-> status, statement_id |-> statement_id]

\* a lookup that never finds the hash
ExistingStatement_none(statements, file_hash) == None

\* select(Statement).where(Statement.file_hash == file_hash), scalar_one_or_none
ExistingStatement(statements, file_hash) ==
    LET found == {k \in DOMAIN statements : statements[k].file_hash = file_hash}
    IN  IF found = {} THEN None ELSE Some(statements[MinOf(found)])

\* session.get(Statement, statement_id)
GetStatement(statements, statement_id) ==
    {k \in DOMAIN statements : statements[k].statement_id = statement_id}

NewStatement(statement_id, file_name, file_hash, parse_result) ==
    [statement_id |-> statement_id, file_name |-> file_name, file_hash |-> file_hash,
     accounts_found |-> parse_result.accounts_found,
     parse_status |-> parse_result.parse_status,
     parse_errors |-> parse_result.parse_errors,
     include_in_metrics |-> TRUE]

\* the Transaction built from one parsed transaction, lines 226-269
NewTransaction(id, statement_id, file_name, txn_data) ==
    LET is_internal_transfer == txn_data.txn_type_code \in {Some("EXI"), Some("EXO")}
        categorization == categorize(txn_data.description_raw, txn_data.txn_type_code,
                                     txn_data.direction, txn_data.to_account,
                                     txn_data.from_account)
    IN  [id |-> id, statement_id |-> statement_id, source_file_name |-> file_name,
         category |-> IF is_internal_transfer THEN "Other expenses"
                      ELSE categorization.category,
         confidence |-> categorization.confidence,
         category_reason |-> categorization.reason,
         needs_review |-> categorization.needs_review,
         is_internal_transfer |-> is_internal_transfer,
         transfer_group_id |-> None, fx_rate_official |-> None, fx_loss_ron |-> None,
         amount_override |-> None, sign_override |-> None, category_override |-> None,
         override_reason |-> None]
        @@ txn_data

NewTransactions(first_id, statement_id, file_name, transactions) ==
    [k \in DOMAIN transactions |->
        NewTransaction(first_id + k - 1, statement_id, file_name, transactions[k])]

\* _postprocess_transfers(session, statement_id) on the table: the query of
\* lines 74-82 and the write-back of the rows it changed
PostprocessStatement(transactions, statement_id, official) ==
    LET selected == {i \in DOMAIN transactions :
                        /\ transactions[i].statement_id = statement_id
                        /\ transactions[i].txn_type_code \in {Some("EXI"), Some("EXO")}}
        order == SortedSeq(selected)
        rows == [k \in DOMAIN order |->
                    [transactions[order[k]] EXCEPT !.txn_type_code = Val(@)]]
        done == _postprocess_transfers(rows, official).rows
    IN  [i \in DOMAIN transactions |->
            IF i \in selected
            THEN [done[Rank(i, selected)] EXCEPT !.txn_type_code = Some(@)]
            ELSE transactions[i]]

\* a reparse that deletes nothing
DeleteTransactions_none(transactions, statement_id) == transactions

\* delete(Transaction).where(Transaction.statement_id == statement_id)
DeleteTransactions(transactions, statement_id) ==
    LET kept == {i \in DOMAIN transactions : transactions[i].statement_id # statement_id}
        order == SortedSeq(kept)
    IN  [k \in DOMAIN order |-> transactions[order[k]]]

\* session.get(Transaction, transaction_id)
GetTransaction(transactions, transaction_id) ==
    {k \in DOMAIN transactions : transactions[k].id = transaction_id}

\* a TransactionUpdateRequest: the names the body holds and a value for each
\* of the four fields (None where the body has null or omits the name)
Payload(fields_set, category_override, override_reason, amount_override, sign_override) ==
    [fields_set |-> fields_set, category_override |-> category_override,
     override_reason |-> override_reason, amount_override |-> amount_override,
     sign_override |-> sign_override]

UpdateRequest(transaction_id, payload) ==
    [op |-> "update_transaction", file_name |-> "", content |-> "",
     target |-> transaction_id, payload |-> payload]

\* an update that assigns all four fields, named in the body or not
ApplyUpdate_all(txn, payload) ==
    [txn EXCEPT !.category_override = payload.category_override,
                !.override_reason = payload.override_reason,
                !.amount_override = payload.amount_override,
                !.sign_override = payload.sign_override]

\* the four assignments of update_transaction, lines 429-437
ApplyUpdate(txn, payload) ==
    [txn EXCEPT
        !.category_override = IF "category_override" \in payload.fields_set
                              THEN payload.category_override ELSE @,
        !.override_reason = IF "override_reason" \in payload.fields_set
                            THEN payload.override_reason ELSE @,
        !.amount_override = IF "amount_override" \in payload.fields_set
                            THEN payload.amount_override ELSE @,
        !.sign_override = IF "sign_override" \in payload.fields_set
                          THEN payload.sign_override ELSE @]

\* tmp_path.write_bytes(content)
WriteFile(uploads, file_name, content) ==
    [n \in DOMAIN uploads \cup {file_name} |-> IF n = file_name THEN content ELSE uploads[n]]

(***************************************************************************)
(* The chunk parser's specification: one call of _parse_transaction_chunk  *)
(* on a chunk with up to MaxAmounts amounts on its first line.             *)
(***************************************************************************)
MaxAmounts == 3

RECURSIVE AmountSeqs(_)
AmountSeqs(n) ==
    IF n = 0 THEN {<<>>}
    ELSE AmountSeqs(n - 1)
         \cup {Append(a, v) : a \in {x \in AmountSeqs(n - 1) : Len(x) = n - 1},
                              v \in {10000, 40000}}

ChunkDates == {<<TRUE, Some(5)>>, <<TRUE, None>>, <<FALSE, None>>}

Chunks ==
    {[date_line |-> dt[1], date |-> dt[2], token3 |-> tok, text |-> tx,
      amounts |-> am, revolut_txn_id |-> None, to_account |-> None,
      from_account |-> None, fx |-> fx] :
        dt \in ChunkDates,
        tok \in {None, Some("EXI"), Some("EXO"), Some("MOA"), Some("7")},
        tx \in {"Transfer to savings", "Payment received from ACME"},
        am \in AmountSeqs(MaxAmounts),
        fx \in {None, Some([base |-> "GBP", quote |-> "RON", rate |-> 575]),
                Some([base |-> "RON", quote |-> "GBP", rate |-> 0])}}

InitChunk ==
    /\ p_chunk \in Chunks
    /\ p_result = None
    /\ CatIdle /\ TransferIdle /\ MetricsIdle /\ PdfIdle /\ FxIdle /\ StoreIdle

ParseChunk ==
    /\ p_result = None
    /\ p_result' = Some(_parse_transaction_chunk(p_chunk))
    /\ UNCHANGED <<p_chunk, catVars, transferVars, metricVars, pdfVars, fxVars, storeVars>>

SpecChunk == InitChunk /\ [][ParseChunk]_vars

ChunkParsed == p_result # None /\ Val(p_result).ok

\* C1: for every transaction _parse_transaction_chunk produces, when
\* direction is inflow or outflow exactly one of money_in and money_out is
\* non-null, amount is that value and signed_amount is amount (inflow) or
\* -amount (outflow); when direction is neutral signed_amount is 0.
C1_DirectionInvariant ==
    ChunkParsed =>
        LET t == Val(p_result).txn
        IN  /\ t.direction \in {"inflow", "outflow"} =>
                /\ IsNone(t.money_in) # IsNone(t.money_out)
                /\ t.direction = "inflow" =>
                       /\ t.money_in = Some(t.amount)
                       /\ t.signed_amount = t.amount
                /\ t.direction = "outflow" =>
                       /\ t.money_out = Some(t.amount)
                       /\ t.signed_amount = -t.amount
            /\ t.direction = "neutral" => t.signed_amount = 0

\* the direction the type code gives an internal-transfer leg, else the one
\* the inflow keywords give
ResolvedDirection(chunk) ==
    IF ChunkTypeCode(chunk) = Some("EXI") THEN "inflow"
    ELSE IF ChunkTypeCode(chunk) = Some("EXO") THEN "outflow"
    ELSE _detect_direction(ChunkText(chunk))

\* the second-to-last amount of the first line, the only one when there is one
PrimaryAmount(chunk) ==
    IF Len(chunk.amounts) >= 2 THEN chunk.amounts[Len(chunk.amounts) - 1]
    ELSE chunk.amounts[1]

\* C25: the primary amount of a parsed chunk is money_in when the resolved
\* direction is inflow and money_out when it is outflow, the resolved
\* direction being that of the type code for EXI and EXO and that of the
\* inflow keywords otherwise, for chunks with one amount as for chunks with
\* two or more.
C25_AmountFollowsDirection ==
    (ChunkParsed /\ Len(p_chunk.amounts) >= 1) =>
        LET t == Val(p_result).txn
        IN  IF ResolvedDirection(p_chunk) = "inflow"
            THEN t.money_in = Some(PrimaryAmount(p_chunk)) /\ IsNone(t.money_out)
            ELSE t.money_out = Some(PrimaryAmount(p_chunk)) /\ IsNone(t.money_in)

(***************************************************************************)
(* The reconciler's specification: a statement of up to MaxLegs transfer   *)
(* legs, freshly inserted by an upload, on which _postprocess_transfers    *)
(* runs up to MaxRuns times against a rate source whose answers stay.      *)
(***************************************************************************)
MaxLegs == 4
MaxRuns == 2

Leg(type, currency, day, money, rate, has_revolut_id) ==
    [txn_type_code |-> type, account_currency |-> currency, txn_date_utc |-> day,
     money |-> money, fx_rate_applied |-> rate, has_revolut_id |-> has_revolut_id]

LegTemplates ==
    {Leg("EXO", "GBP", 1, Some(10000), Some(Rate(575, 100)), FALSE),
     Leg("EXO", "GBP", 1, Some(10000), None, TRUE),
     Leg("EXO", "GBP", 1, Some(10600), Some(Rate(575, 100)), FALSE),
     Leg("EXO", "GBP", 2, Some(10000), Some(Rate(575, 100)), TRUE),
     Leg("EXO", "RON", 1, Some(10000), None, FALSE),
     Leg("EXI", "RON", 1, Some(57800), None, FALSE),
     Leg("EXI", "RON", 1, Some(57800), Some(Rate(575, 100)), TRUE),
     Leg("EXI", "RON", 1, Some(61000), None, TRUE),
     Leg("EXI", "RON", 2, Some(58000), None, FALSE),
     Leg("EXI", "RON", 1, Some(60000), Some(Rate(600, 100)), FALSE),
     Leg("CARD", "GBP", 1, Some(10000), Some(Rate(575, 100)), TRUE)}

\* the Transaction row an upload inserts for the leg at position i
RowOf(leg, i) ==
    [id |-> i,
     txn_type_code |-> leg.txn_type_code,
     account_currency |-> leg.account_currency,
     txn_date_utc |-> leg.txn_date_utc,
     revolut_txn_id |-> IF leg.has_revolut_id THEN Some(100 + i) ELSE None,
     money_out |-> IF leg.txn_type_code # "EXI" THEN leg.money ELSE None,
     money_in |-> IF leg.txn_type_code = "EXI" THEN leg.money ELSE None,
     fx_rate_applied |-> leg.fx_rate_applied,
     transfer_group_id |-> None,
     fx_rate_official |-> None,
     fx_loss_ron |-> None]

OfficialAnswers == {[d \in {1, 2} |-> IF d = 1 THEN a ELSE Some(Rate(590, 100))] :
                        a \in {None, Some(Rate(590, 100))}}

InitTransfers ==
    /\ \E n \in 1..MaxLegs : \E legs \in [1..n -> LegTemplates] :
           t_rows = [i \in 1..n |-> RowOf(legs[i], i)]
    /\ t_official \in OfficialAnswers
    /\ t_runs = 0
    /\ t_prev = <<>>
    /\ t_log = <<>>
    /\ CatIdle /\ ChunkIdle /\ MetricsIdle /\ PdfIdle /\ FxIdle /\ StoreIdle

PostprocessTransfers ==
    /\ t_runs < MaxRuns
    /\ LET done == _postprocess_transfers(t_rows, t_official)
       IN  /\ t_rows' = done.rows
           /\ t_log' = done.log
    /\ t_prev' = t_rows
    /\ t_runs' = t_runs + 1
    /\ UNCHANGED <<t_official, catVars, chunkVars, metricVars, pdfVars, fxVars, storeVars>>

SpecTransfers == InitTransfers /\ [][PostprocessTransfers]_vars

TransferFields(txn) ==
    <<txn.transfer_group_id, txn.fx_rate_applied, txn.fx_rate_official, txn.fx_loss_ron>>

\* C2: a second run of _postprocess_transfers on the same rows, the rate
\* source answering the same, changes no transaction's transfer_group_id,
\* fx_rate_applied, fx_rate_official or fx_loss_ron.
C2_Idempotent ==
    t_runs >= 2 =>
        \A i \in DOMAIN t_rows : TransferFields(t_rows[i]) = TransferFields(t_prev[i])

RejectedAt(k) == t_log[k].outcome = "too far"
PairedAt(k) == t_log[k].outcome \in {"grouped", "priced"}

KeepsProvisional(i) ==
    /\ t_rows[i].transfer_group_id = ProvisionalGroup(t_rows[i])
    /\ t_rows[i].fx_rate_official = t_prev[i].fx_rate_official
    /\ t_rows[i].fx_loss_ron = t_prev[i].fx_loss_ron

\* C3 as stated: a pair is accepted only within the tolerance of 5, and when
\* the nearest candidate is further away both the outbound leg and that
\* candidate keep their provisional group ids and get no official rate or loss.
C3_RejectedBothUntouched ==
    \A k \in DOMAIN t_log :
        /\ PairedAt(k) =>
               Distance(Val(t_rows[t_log[k].best].money_in),
                        Val(t_rows[t_log[k].exo].money_out), Val(t_log[k].rate))
                   <= 5 * 100 * Val(t_log[k].rate).d
        /\ RejectedAt(k) =>
               /\ KeepsProvisional(t_log[k].exo)
               /\ KeepsProvisional(t_log[k].best)

\* C3 amended: as above for the outbound leg; the rejected candidate is not
\* consumed, and it keeps its provisional group id and gets no official rate
\* or loss unless another outbound leg of the run is paired with it.
C3_RejectedOutboundUntouched ==
    \A k \in DOMAIN t_log :
        /\ PairedAt(k) =>
               Distance(Val(t_rows[t_log[k].best].money_in),
                        Val(t_rows[t_log[k].exo].money_out), Val(t_log[k].rate))
                   <= 5 * 100 * Val(t_log[k].rate).d
        /\ RejectedAt(k) =>
               /\ KeepsProvisional(t_log[k].exo)
               /\ \A m \in DOMAIN t_log : t_log[m].exo = t_log[k].exo => ~PairedAt(m)
               /\ (\A m \in DOMAIN t_log : PairedAt(m) => t_log[m].best # t_log[k].best)
                      => KeepsProvisional(t_log[k].best)

\* a run has rejected the nearest candidate of one outbound leg and paired another leg
C3_Witness ==
    /\ t_runs = 1
    /\ \E k, m \in DOMAIN t_log : RejectedAt(k) /\ PairedAt(m)

\* the answer of _fetch_bnr_rate(exo.txn_date_utc, "GBP") for the pair of entry k
OfficialAt(k) == t_official[t_rows[t_log[k].exo].txn_date_utc]

SameGroup(k) ==
    /\ ~IsNone(t_rows[t_log[k].exo].transfer_group_id)
    /\ t_rows[t_log[k].exo].transfer_group_id = t_rows[t_log[k].best].transfer_group_id

\* C14: for every pair a run accepted, both legs share one transfer_group_id;
\* when the official GBP rate of the outbound date is unavailable both legs
\* keep their previous, null fx_rate_official and fx_loss_ron; when it is
\* available both legs hold it as fx_rate_official, the resolved applied rate
\* as fx_rate_applied and official * money_out - money_in as fx_loss_ron;
\* either way the run goes on through every outbound leg.
C14_LossIffOfficial ==
    t_runs >= 1 =>
        /\ Len(t_log) = Cardinality(ExoGbp(t_rows))
        /\ \A k \in DOMAIN t_log :
               PairedAt(k) =>
                   LET exo == t_log[k].exo
                       best == t_log[k].best
                       off == OfficialAt(k)
                   IN  /\ SameGroup(k)
                       /\ IsNone(off) =>
                              \A i \in {exo, best} :
                                  /\ t_rows[i].fx_rate_official = t_prev[i].fx_rate_official
                                  /\ t_rows[i].fx_loss_ron = t_prev[i].fx_loss_ron
                                  /\ IsNone(t_rows[i].fx_rate_official)
                                  /\ IsNone(t_rows[i].fx_loss_ron)
                       /\ ~IsNone(off) =>
                              \A i \in {exo, best} :
                                  /\ t_rows[i].fx_rate_official = off
                                  /\ t_rows[i].fx_rate_applied = t_log[k].rate
                                  /\ ~IsNone(t_rows[i].fx_loss_ron)
                                  /\ Val(t_rows[i].fx_loss_ron).d = Val(off).d
                                  /\ Val(t_rows[i].fx_loss_ron).n =
                                         Val(off).n * Val(t_rows[exo].money_out)
                                             - Val(t_rows[best].money_in) * Val(off).d

\* a first run accepted a pair whose official rate is missing and a pair of a
\* later day whose official rate is there
C14_Witness ==
    /\ t_runs = 1
    /\ \E k, m \in DOMAIN t_log :
           /\ k < m
           /\ PairedAt(k) /\ IsNone(OfficialAt(k))
           /\ PairedAt(m) /\ ~IsNone(OfficialAt(m))
           /\ Val(t_rows[t_log[m].exo].fx_loss_ron).n # 0

\* the inbound legs consumed before entry m of the run's log
ConsumedBefore(m) == {t_log[k].best : k \in {j \in 1..(m - 1) : PairedAt(j)}}

\* the same-day inbound RON legs of entry m's outbound leg
SameDayInbound(m) ==
    {j \in DOMAIN t_rows : /\ t_rows[j].txn_type_code = "EXI"
                           /\ t_rows[j].account_currency = "RON"
                           /\ ~IsNone(t_rows[j].money_in)
                           /\ t_rows[j].txn_date_utc = t_rows[t_log[m].exo].txn_date_utc}

DistanceAt(m, j) ==
    Distance(Val(t_rows[j].money_in), Val(t_rows[t_log[m].exo].money_out), Val(t_log[m].rate))

\* C22: in a run the outbound GBP legs are taken in list order, each once;
\* no inbound leg is paired twice; paired legs are an outbound GBP leg and
\* an inbound RON leg of the same date; and the leg an outbound leg is
\* paired with is the first of the nearest among the same-day inbound legs
\* that no earlier outbound leg of the run consumed.
C22_OneToOneSameDay ==
    t_runs >= 1 =>
        /\ \A k, m \in DOMAIN t_log : k < m => t_log[k].exo < t_log[m].exo
        /\ \A k, m \in DOMAIN t_log :
               (PairedAt(k) /\ PairedAt(m) /\ k # m) => t_log[k].best # t_log[m].best
        /\ \A m \in DOMAIN t_log :
               PairedAt(m) =>
                   LET free == SameDayInbound(m) \ ConsumedBefore(m)
                   IN  /\ t_log[m].exo \in ExoGbp(t_rows)
                       /\ t_log[m].best \in free
                       /\ \A j \in free : DistanceAt(m, t_log[m].best) <= DistanceAt(m, j)
                       /\ \A j \in free : DistanceAt(m, j) = DistanceAt(m, t_log[m].best)
                                              => t_log[m].best <= j

\* two outbound legs of one day with the same nearest inbound leg: the
\* earlier took it and the later was paired with another
C22_Witness ==
    /\ t_runs = 1
    /\ \E k, m \in DOMAIN t_log :
           /\ k < m
           /\ PairedAt(k) /\ PairedAt(m)
           /\ t_log[k].best \in SameDayInbound(m)
           /\ \A j \in SameDayInbound(m) : DistanceAt(m, t_log[k].best) <= DistanceAt(m, j)
           /\ t_log[m].best # t_log[k].best

\* the entries of the run's log in which row i was paired
PairsOf(i) == {m \in DOMAIN t_log : PairedAt(m) /\ i \in {t_log[m].exo, t_log[m].best}}

\* C23: after a run every EXI or EXO row has a non-null transfer_group_id:
\* a row of an accepted pair has the outbound leg's external id if present,
\* else the inbound leg's external id if present, else the outbound leg's
\* own id; an unpaired row has its own external id if present, else its own
\* id.  A row with another type code is as it was before the run.
C23_GroupIds ==
    t_runs >= 1 =>
        \A i \in DOMAIN t_rows :
            IF t_rows[i].txn_type_code \in {"EXI", "EXO"}
            THEN /\ ~IsNone(t_rows[i].transfer_group_id)
                 /\ \A m \in PairsOf(i) :
                        LET exo == t_rows[t_log[m].exo]
                            best == t_rows[t_log[m].best]
                        IN  t_rows[i].transfer_group_id =
                                IF ~IsNone(exo.revolut_txn_id) THEN exo.revolut_txn_id
                                ELSE IF ~IsNone(best.revolut_txn_id) THEN best.revolut_txn_id
                                ELSE Some(exo.id)
                 /\ PairsOf(i) = {} =>
                        t_rows[i].transfer_group_id =
                            IF ~IsNone(t_rows[i].revolut_txn_id) THEN t_rows[i].revolut_txn_id
                            ELSE Some(t_rows[i].id)
            ELSE t_rows[i] = t_prev[i]

\* a first run over a card payment, an accepted pair whose only external id
\* is the inbound leg's, and an unpaired leg without an external id
C23_Witness ==
    /\ t_runs = 1
    /\ \E i \in DOMAIN t_rows : t_rows[i].txn_type_code = "CARD"
    /\ \E m \in DOMAIN t_log :
           /\ PairedAt(m)
           /\ IsNone(t_rows[t_log[m].exo].revolut_txn_id)
           /\ t_rows[t_log[m].exo].transfer_group_id = t_rows[t_log[m].best].revolut_txn_id
    /\ \E i \in DOMAIN t_rows :
           /\ t_rows[i].txn_type_code \in {"EXI", "EXO"}
           /\ PairsOf(i) = {}
           /\ t_rows[i].transfer_group_id = Some(t_rows[i].id)

\* the candidates of entry m: the same-day inbound legs not consumed before it
FreeAt(m) == SameDayInbound(m) \ ConsumedBefore(m)

\* the outbound leg's own rate as the run found it, else the rate of the
\* first candidate that has one
ResolvedRate(m) ==
    LET own == t_prev[t_log[m].exo].fx_rate_applied
        rated == {j \in FreeAt(m) : ~IsNone(t_prev[j].fx_rate_applied)}
    IN  IF ~IsNone(own) THEN own
        ELSE IF rated = {} THEN None
        ELSE t_prev[MinOf(rated)].fx_rate_applied

\* the outbound leg's own rate, else the rate of the first candidate
FirstCandidateRate(m) ==
    LET own == t_prev[t_log[m].exo].fx_rate_applied
    IN  IF ~IsNone(own) THEN own ELSE t_prev[MinOf(FreeAt(m))].fx_rate_applied

\* entry m used rate: the nearest candidate was measured against money_out *
\* rate, a pair was accepted only within the tolerance of that expectation
\* and priced legs hold the rate; without a rate the leg was skipped, no leg
\* paired with it and the row left as it was but for its provisional group
UsesRate(m, rate) ==
    LET exo == t_log[m].exo
    IN  IF IsNone(rate)
        THEN /\ ~PairedAt(m)
             /\ t_log[m].outcome = "no rate"
             /\ t_rows[exo] = [t_prev[exo] EXCEPT
                                  !.transfer_group_id = ProvisionalGroup(t_prev[exo])]
        ELSE /\ t_log[m].outcome \in {"too far", "grouped", "priced"}
             /\ \A j \in FreeAt(m) :
                    Distance(Val(t_rows[t_log[m].best].money_in), Val(t_rows[exo].money_out),
                             Val(rate))
                        <= Distance(Val(t_rows[j].money_in), Val(t_rows[exo].money_out),
                                    Val(rate))
             /\ PairedAt(m) <=>
                    Distance(Val(t_rows[t_log[m].best].money_in), Val(t_rows[exo].money_out),
                             Val(rate)) <= 5 * 100 * Val(rate).d
             /\ t_log[m].outcome = "priced" =>
                    /\ t_rows[exo].fx_rate_applied = rate
                    /\ t_rows[t_log[m].best].fx_rate_applied = rate

\* C24 as stated: each outbound leg with a candidate uses its own
\* fx_rate_applied when set, otherwise the applied rate of the first same-day
\* unconsumed inbound candidate, and is skipped when that gives no rate.
C24_FirstCandidateRate ==
    t_runs >= 1 =>
        \A m \in DOMAIN t_log : FreeAt(m) # {} => UsesRate(m, FirstCandidateRate(m))

\* C24 amended: each outbound leg with a candidate uses its own
\* fx_rate_applied when set, otherwise the applied rate of the first same-day
\* unconsumed inbound candidate that has one, and is skipped, nothing paired
\* or written for it, when neither it nor any candidate has a rate.
C24_FirstAvailableRate ==
    t_runs >= 1 =>
        \A m \in DOMAIN t_log : FreeAt(m) # {} => UsesRate(m, ResolvedRate(m))

\* a first run in which an outbound leg without a rate borrowed the rate of
\* its second candidate, the first having none, and was paired
C24_Witness ==
    /\ t_runs = 1
    /\ \E m \in DOMAIN t_log :
           /\ PairedAt(m)
           /\ IsNone(t_prev[t_log[m].exo].fx_rate_applied)
           /\ IsNone(t_prev[MinOf(FreeAt(m))].fx_rate_applied)
           /\ ~IsNone(ResolvedRate(m))

(***************************************************************************)
(* The metrics specification: one call of compute_monthly_metrics over up  *)
(* to MaxTxns stored transactions, taken from the templates below in       *)
(* insertion order, with the rate source answering for today, and then     *)
(* one call of compute_summary on the series it returned.                  *)
(***************************************************************************)
MaxTxns == 3

Jan2024 == 2024 * 12
Feb2024 == 2024 * 12 + 1

MetricRow(inc, cur, month, cat, cat_override, internal, dir, amount, amt_override, sign, review, rate) ==
    [include_in_metrics |-> inc, account_currency |-> cur, month |-> month,
     category |-> cat, category_override |-> cat_override,
     is_internal_transfer |-> internal, direction |-> dir, amount |-> amount,
     amount_override |-> amt_override, sign_override |-> sign,
     needs_review |-> review, fx_rate_applied |-> rate]

MetricTemplates ==
    <<MetricRow(TRUE, "RON", Jan2024, "Revenue", None, FALSE, "inflow",
                50000, None, None, FALSE, None),
      MetricRow(TRUE, "RON", Jan2024, "Expenses for employees", None, FALSE, "outflow",
                10000, Some(8000), Some(TRUE), FALSE, None),
      MetricRow(TRUE, "GBP", Jan2024, "Other expenses", None, TRUE, "outflow",
                10000, None, None, FALSE, Some(Rate(575, 100))),
      MetricRow(TRUE, "RON", Jan2024, "Other expenses", None, TRUE, "inflow",
                57800, None, None, FALSE, Some(Rate(575, 100))),
      MetricRow(TRUE, "GBP", Jan2024, "Revenue", None, FALSE, "inflow",
                20033, None, None, TRUE, None),
      MetricRow(TRUE, "RON", Feb2024, "Expenses towards government (taxes)",
                Some("Other expenses"), FALSE, "outflow", 3000, None, Some(FALSE), TRUE, None),
      MetricRow(TRUE, "RON", Jan2024, "Other expenses", None, TRUE, "outflow",
                4000, None, None, FALSE, None),
      MetricRow(FALSE, "RON", Jan2024, "Revenue", None, FALSE, "inflow",
                99900, None, None, FALSE, None),
      MetricRow(TRUE, "RON", Jan2024, "Other expenses", Some("Groceries"), FALSE, "outflow",
                1500, None, None, FALSE, None),
      MetricRow(TRUE, "RON", Jan2024, "Other expenses", Some("Revenue"), TRUE, "inflow",
                2500, None, None, FALSE, None)>>

MetricArgs ==
    [from_month : {"2024-01", "2024-13"}, to_month : {"2024-01", " 2024-02", "Feb 2024"},
     currency : {"all", "RON", "GBP"}, use_overrides : BOOLEAN]

InitMetrics ==
    /\ \E S \in SUBSET DOMAIN MetricTemplates :
           /\ Cardinality(S) <= MaxTxns
           /\ m_rows = [k \in 1..Cardinality(S) |-> MetricTemplates[SortedSeq(S)[k]]]
    /\ m_rates \in [{"GBP"} -> {None, Some(Rate(597, RateDen))}]
    /\ m_args \in MetricArgs
    /\ m_result = None
    /\ m_summary = None
    /\ CatIdle /\ ChunkIdle /\ TransferIdle /\ PdfIdle /\ FxIdle /\ StoreIdle

ComputeMonthlyMetrics ==
    /\ m_result = None
    /\ m_result' = Some(compute_monthly_metrics(m_rows, m_rates, m_args))
    /\ UNCHANGED <<m_rows, m_rates, m_args, m_summary, catVars, chunkVars, transferVars,
                   pdfVars, fxVars, storeVars>>

\* compute_summary(items), as metrics_summary calls it on the series
ComputeSummary ==
    /\ m_result # None
    /\ Val(m_result).status = "ok"
    /\ m_summary = None
    /\ m_summary' = Some(compute_summary(Val(m_result).points))
    /\ UNCHANGED <<m_rows, m_rates, m_args, m_result, catVars, chunkVars, transferVars,
                   pdfVars, fxVars, storeVars>>

NextMetrics == ComputeMonthlyMetrics \/ ComputeSummary

SpecMetrics == InitMetrics /\ [][NextMetrics]_vars

MetricsDone == m_result # None /\ Val(m_result).status = "ok"

\* the rows the finished call selected
MetricsSelected ==
    SelectedRows(m_rows, m_args.currency, Val(_parse_month(m_args.from_month)),
                 Val(_parse_month(m_args.to_month)))

\* the amount a row contributes when the amount override counts only under use_overrides
GatedAmount(txn, use_overrides) ==
    LET base == IF use_overrides /\ ~IsNone(txn.amount_override)
                THEN Val(txn.amount_override) ELSE txn.amount
    IN  IF txn.sign_override = Some(TRUE) THEN -base ELSE base

\* C6: the amount override is honoured only when use_overrides is true: in
\* every point of the single-currency path each expense total is the sum,
\* over the month's rows of that category, of the overridden amount when
\* use_overrides is true and of the stored amount when it is false (sign
\* flipped under sign_override): amount 100, override 80, sign_override
\* gives -80 with use_overrides and -100 without.
C6_AmountOverrideGated ==
    (MetricsDone /\ m_args.currency # "all") =>
        \A k \in DOMAIN Val(m_result).points : \A key \in ExpenseKeys :
            LET point == Val(m_result).points[k]
                members == {i \in MetricsSelected :
                               /\ m_rows[i].month = point.month
                               /\ CATEGORY_MAP[resolve_category(m_rows[i], m_args.use_overrides)] = key}
            IN  point.totals[key] =
                    SumOver(members, [i \in members |->
                                         GatedAmount(m_rows[i], m_args.use_overrides)])

\* the selected rows lie in one month and one currency
OneMonthOneCurrency ==
    /\ MetricsSelected # {}
    /\ \A i, j \in MetricsSelected :
           /\ m_rows[i].month = m_rows[j].month
           /\ m_rows[i].account_currency = m_rows[j].account_currency

OnlyCurrency == m_rows[CHOOSE i \in MetricsSelected : TRUE].account_currency

\* the point the single-currency path returns for the same rows and month
SingleCounterpart ==
    compute_monthly_metrics(m_rows, m_rates, [m_args EXCEPT !.currency = OnlyCurrency])

PointsAgree(all, single) ==
    /\ all.month = single.month
    /\ all.totals = single.totals
    /\ all.transfers_in_ron = single.transfers_in
    /\ all.transfers_out_original = single.transfers_out
    /\ all.total_expenses_operational = single.total_expenses_operational
    /\ all.net_income_operational = single.net_income_operational

PathsAgree ==
    /\ SingleCounterpart.status = "ok"
    /\ Len(Val(m_result).points) = 1
    /\ Len(SingleCounterpart.points) = 1
    /\ PointsAgree(Val(m_result).points[1], SingleCounterpart.points[1])

\* C7 as stated: for transactions of one month and one currency the point of
\* currency = "all" equals the point of that currency in category totals,
\* transfer volumes, total_expenses_operational and net_income_operational.
C7_PathsAgree ==
    (MetricsDone /\ m_args.currency = "all" /\ OneMonthOneCurrency) => PathsAgree

TransferOutLegs ==
    {i \in MetricsSelected : m_rows[i].is_internal_transfer /\ m_rows[i].direction # "inflow"}

\* C7 amended: the two points are equal when the only currency is RON and
\* the month holds no internal-transfer leg counted as transfer-out.
C7_PathsAgreeRonNoTransferOut ==
    (/\ MetricsDone
     /\ m_args.currency = "all"
     /\ OneMonthOneCurrency
     /\ OnlyCurrency = "RON"
     /\ TransferOutLegs = {}) => PathsAgree

\* an "all" call over RON rows of one month, an internal-transfer inflow among them
C7_Witness ==
    /\ MetricsDone
    /\ m_args.currency = "all"
    /\ OneMonthOneCurrency
    /\ OnlyCurrency = "RON"
    /\ TransferOutLegs = {}
    /\ \E i \in MetricsSelected : m_rows[i].is_internal_transfer
    /\ \E i \in MetricsSelected : ~m_rows[i].is_internal_transfer
    /\ Len(Val(m_result).points) = 1

\* the values of a returned point before rounding, and the rounding of its path
PointRaw(point) ==
    IF m_args.currency = "all"
    THEN LET raw == AllRaw(m_rows, MetricsSelected, m_rates, point.month, m_args.use_overrides)
         IN  [totals |-> raw.totals, transfers_in |-> raw.transfers_in_ron,
              transfers_out |-> raw.transfers_out_ron, revenue_total |-> raw.revenue_total,
              total_expenses_operational |-> raw.total_expenses_operational,
              net_income_operational |-> raw.net_income_operational]
    ELSE LET raw == SingleRaw(m_rows, GroupOf(m_rows, MetricsSelected, point.currency,
                                               point.month), m_args.use_overrides)
         IN  [totals |-> raw.totals, transfers_in |-> raw.transfers_in,
              transfers_out |-> raw.transfers_out, revenue_total |-> raw.revenue_total,
              total_expenses_operational |-> raw.total_expenses_operational,
              net_income_operational |-> raw.net_income_operational]

PointRound(value) == IF m_args.currency = "all" THEN Round2(value) ELSE value

\* C15: on both paths every returned point is the rounding of values with
\* total_expenses_operational = taxes + accountant + car_leasing +
\* leasing_fuel + employees + dividends + other_expenses + transfers-out (in
\* the point's currency), net_income_operational = revenue_total -
\* total_expenses_operational, and revenue_total = Revenue total + transfers-in.
C15_OperationalTotals ==
    MetricsDone =>
        \A k \in DOMAIN Val(m_result).points :
            LET point == Val(m_result).points[k]
                raw == PointRaw(point)
            IN  /\ raw.total_expenses_operational =
                       raw.totals["taxes_total"] + raw.totals["accountant_total"]
                       + raw.totals["car_leasing_total"] + raw.totals["leasing_fuel_total"]
                       + raw.totals["employees_total"] + raw.totals["dividends_total"]
                       + raw.totals["other_expenses_total"] + raw.transfers_out
                /\ raw.revenue_total = raw.totals["revenue_total"] + raw.transfers_in
                /\ raw.net_income_operational =
                       raw.revenue_total - raw.total_expenses_operational
                /\ point.total_expenses_operational = PointRound(raw.total_expenses_operational)
                /\ point.net_income_operational = PointRound(raw.net_income_operational)
                /\ point.totals["revenue_total"] = PointRound(raw.revenue_total)
                /\ \A key \in TotalKeys \ {"revenue_total"} :
                       point.totals[key] = PointRound(raw.totals[key])

\* an 'all' point with an expense total, a transfers total, transfers in and
\* converted transfers out
C15_Witness ==
    /\ MetricsDone
    /\ m_args.currency = "all"
    /\ \E k \in DOMAIN Val(m_result).points :
           LET raw == PointRaw(Val(m_result).points[k])
           IN  /\ raw.transfers_out > 0
               /\ raw.transfers_in > 0
               /\ raw.totals["transfers_total"] # 0
               /\ \E key \in TotalKeys \ {"revenue_total", "transfers_total"} :
                      raw.totals[key] # 0

\* the rows summed into a returned point, and the rate each is converted at
PointMembers(point) ==
    IF m_args.currency = "all"
    THEN {i \in MetricsSelected :
              /\ m_rows[i].month = point.month
              /\ m_rows[i].account_currency
                     \in ConvertedCurrencies(m_rows, MetricsSelected, m_rates, point.month)}
    ELSE GroupOf(m_rows, MetricsSelected, point.currency, point.month)

MemberRate(i) ==
    IF m_args.currency = "all" THEN Val(RateToday(m_rates, m_rows[i].account_currency)).n ELSE 1

\* the effective category as the claim words it
EffectiveCategory(txn) ==
    IF txn.is_internal_transfer THEN "Internal transfer"
    ELSE IF m_args.use_overrides /\ txn.category_override \notin {None, Some("")}
    THEN Val(txn.category_override)
    ELSE txn.category

\* C16: in every returned point each category total is the sum of the
\* amounts of the point's rows whose effective category maps to it, where a
\* row with is_internal_transfer has the effective category 'Internal
\* transfer' whatever its override, and any other row has its override when
\* use_overrides is true and one is set, else its stored category; each row
\* is counted under that one category, so an internal-transfer leg is in
\* transfers_total and in no other category total.
C16_EffectiveCategory ==
    MetricsDone =>
        \A k \in DOMAIN Val(m_result).points :
            LET point == Val(m_result).points[k]
                members == PointMembers(point)
                under(key) == {i \in members : CATEGORY_MAP[EffectiveCategory(m_rows[i])] = key}
                named(c) == {i \in members : EffectiveCategory(m_rows[i]) = c}
            IN  /\ \A key \in TotalKeys :
                       PointRaw(point).totals[key] =
                           SumOver(under(key), [i \in under(key) |->
                               effective_amount(m_rows[i]) * MemberRate(i)])
                /\ DOMAIN point.counts_by_category =
                       {EffectiveCategory(m_rows[i]) : i \in members}
                /\ \A c \in DOMAIN point.counts_by_category :
                       point.counts_by_category[c] = Cardinality(named(c))
                /\ {i \in members : m_rows[i].is_internal_transfer} \subseteq under("transfers_total")

\* a call with use_overrides that returned a point counting an internal
\* transfer leg whose category_override names another category
C16_Witness ==
    /\ MetricsDone
    /\ m_args.use_overrides
    /\ \E k \in DOMAIN Val(m_result).points :
           \E i \in PointMembers(Val(m_result).points[k]) :
               /\ m_rows[i].is_internal_transfer
               /\ m_rows[i].category_override = Some("Revenue")
               /\ PointRaw(Val(m_result).points[k]).totals["transfers_total"] # 0
               /\ PointRaw(Val(m_result).points[k]).totals["revenue_total"] = 0

\* the source has a rate for the row's currency today
HasRate(row) == row.account_currency = "RON" \/ ~IsNone(m_rates[row.account_currency])

AllRatesAvailable == [c \in DOMAIN m_rates |-> Some(Rate(597, RateDen))]

\* C19: with currency = 'all' a missing rate changes neither whether the
\* call returns (it raises exactly when it would with every rate available)
\* nor anything else than dropping the rows of the currencies without a rate:
\* the points returned are those of the same call over the stored rows whose
\* currency has a rate.
C19_MissingRateSkipped ==
    (m_result # None /\ m_args.currency = "all") =>
        /\ Val(m_result).status =
               compute_monthly_metrics(m_rows, AllRatesAvailable, m_args).status
        /\ Val(m_result).status = "ok" =>
               Val(m_result).points =
                   compute_monthly_metrics(SelectSeq(m_rows, HasRate), m_rates, m_args).points

\* an 'all' call without a GBP rate that returned a point for a month with
\* selected GBP and RON rows
C19_Witness ==
    /\ MetricsDone
    /\ m_args.currency = "all"
    /\ IsNone(m_rates["GBP"])
    /\ Len(Val(m_result).points) >= 1
    /\ \E i, j \in MetricsSelected :
           /\ m_rows[i].account_currency = "GBP"
           /\ m_rows[j].account_currency = "RON"
           /\ m_rows[i].month = m_rows[j].month
           /\ effective_amount(m_rows[i]) # 0

SummaryDone == m_summary # None

\* the sum of one field over the points of the series
FieldSum(key) ==
    LET points == Val(m_result).points
    IN  SumOver(DOMAIN points, [k \in DOMAIN points |-> PointField(points[k], key)])

\* the points' transfer-in and transfer-out volumes under whichever names
\* their path gives them
PointTransfersIn(point) ==
    IF HasRonFields(point) THEN point.transfers_in_ron ELSE point.transfers_in

PointTransfersOut(point) ==
    IF HasRonFields(point) THEN point.transfers_out_original ELSE point.transfers_out

\* C28: compute_summary returns for every summed field the sum of the field
\* over the monthly points, and an avg_fx_rate recomputed from the summed
\* transfer volumes of the range on the 'all' path and non-null, on either
\* path, whenever a monthly point of the range carries a rate.
C28_SummaryOverRange ==
    SummaryDone =>
        LET points == Val(m_result).points
            summary == Val(m_summary)
            tin == SumOver(DOMAIN points,
                           [k \in DOMAIN points |-> PointTransfersIn(points[k])])
            tout == SumOver(DOMAIN points,
                            [k \in DOMAIN points |-> PointTransfersOut(points[k])])
        IN  /\ \A key \in SummedKeys : summary.totals[key] = FieldSum(key)
            /\ (m_args.currency = "all" /\ tout > 0) =>
                   summary.avg_fx_rate = Some(RoundHalfEven(tin * 10000, tout))
            /\ (\E k \in DOMAIN points : ~IsNone(points[k].avg_fx_rate)) =>
                   ~IsNone(summary.avg_fx_rate)

\* the internal-transfer legs among the rows of a point
PointLegs(point) == {i \in PointMembers(point) : m_rows[i].is_internal_transfer}

\* the month's transfer-out volume in foreign currency, and its converted
\* transfer-in, as numerators over RateDen
ForeignTransfersOut(point) ==
    LET outs == {i \in PointLegs(point) : /\ m_rows[i].direction # "inflow"
                                          /\ m_rows[i].account_currency # "RON"}
    IN  SumOver(outs, [i \in outs |-> Abs(effective_amount(m_rows[i]))])

ConvertedTransfersIn(point) ==
    LET ins == {i \in PointLegs(point) : m_rows[i].direction = "inflow"}
    IN  SumOver(ins, [i \in ins |-> Abs(effective_amount(m_rows[i])) * MemberRate(i)])

\* the converted amounts of the rows that are no transfer legs and whose
\* effective category maps into keys
PlainTotal(point, keys) ==
    LET plain == {i \in PointMembers(point) \ PointLegs(point) :
                      CATEGORY_MAP[EffectiveCategory(m_rows[i])] \in keys}
    IN  SumOver(plain, [i \in plain |-> effective_amount(m_rows[i]) * MemberRate(i)])

MaxLines == 3

FirstLine(date, token3, text, amounts) ==
    [date_line |-> TRUE, date |-> date, token3 |-> token3, text |-> text,
     amounts |-> amounts, revolut_txn_id |-> None, to_account |-> None,
     from_account |-> None, fx |-> None]

NameLine == Line("name", "Main", None, None, None)
CurrencyLine(c) == Line("currency", c, None, None, None)
IbanLine == Line("iban", "GB00REVO", None, None, None)
PeriodLine(period) == Line("period", "", period, None, None)
HeaderLine == Line("header", "", None, None, None)
TerminatorLine == Line("terminator", "", None, None, None)
TxnLine(chunk) == Line("txn", "", None, Some(chunk), None)
DetailLine(id) == Line("detail", "", None, None, id)

Preamble == <<NameLine, CurrencyLine("GBP"), IbanLine, PeriodLine(Some(<<1, 31>>)), HeaderLine>>

\* s without its k-th element
Without(s, k) == SubSeq(s, 1, k - 1) \o SubSeq(s, k + 1, Len(s))

Preambles == {<<>>, Preamble} \cup {Without(Preamble, k) : k \in DOMAIN Preamble}

BodyLines ==
    {CurrencyLine("RON"), PeriodLine(Some(<<32, 59>>)), PeriodLine(None), HeaderLine,
     TerminatorLine, DetailLine(Some(901)),
     TxnLine(FirstLine(Some(5), Some("EXO"), "To savings", <<10000, 40000>>)),
     TxnLine(FirstLine(None, Some("CARD"), "Payment received", <<2500>>))}

Bodies == UNION {[1..n -> BodyLines] : n \in 0..MaxLines}

InitParsePdf ==
    /\ \E pre \in Preambles, body \in Bodies : pp_doc = pre \o body
    /\ pp_result = None
    /\ CatIdle /\ ChunkIdle /\ TransferIdle /\ MetricsIdle /\ FxIdle /\ StoreIdle

ParsePdf ==
    /\ pp_result = None
    /\ pp_result' = Some(parse_pdf(pp_doc))
    /\ UNCHANGED <<pp_doc, catVars, chunkVars, transferVars, metricVars, fxVars, storeVars>>

SpecParsePdf == InitParsePdf /\ [][ParsePdf]_vars

\* the chunks of every account block in the order the loop meets them, each
\* with its block's currency
RECURSIVE ChunksOfBlocks(_)
ChunksOfBlocks(blocks) ==
    IF blocks = <<>> THEN <<>>
    ELSE LET chunks == _split_transactions(Head(blocks).lines)
         IN  [k \in DOMAIN chunks |->
                 [currency |-> Head(blocks).account_currency, chunk |-> ChunkOf(chunks[k])]]
             \o ChunksOfBlocks(Tail(blocks))

PdfChunks == ChunksOfBlocks(ScanDocument(pp_doc).blocks)
FailingChunks == {i \in DOMAIN PdfChunks : ~_parse_transaction_chunk(PdfChunks[i].chunk).ok}
ParsedChunks == DOMAIN PdfChunks \ FailingChunks

PdfScanned == pp_result # None /\ ~ScanDocument(pp_doc).raised

\* C9: no chunk failure escapes parse_pdf: the k-th failing chunk is the
\* k-th entry of parse_errors, "<account currency>: <message>", and gives no
\* transaction; the k-th succeeding chunk is the k-th transaction; chunks
\* after a failing one are parsed; parse_status is "partial" exactly when
\* parse_errors is non-empty and "success" otherwise.
C9_ChunkFailuresRecorded ==
    PdfScanned =>
        LET r == Val(pp_result)
        IN  /\ r.status = "ok"
            /\ Len(r.parse_errors) = Cardinality(FailingChunks)
            /\ Len(r.transactions) = Cardinality(ParsedChunks)
            /\ \A i \in FailingChunks :
                   r.parse_errors[Rank(i, FailingChunks)] =
                       PdfChunks[i].currency \o ": "
                           \o _parse_transaction_chunk(PdfChunks[i].chunk).error
            /\ \A i \in ParsedChunks :
                   LET txn == r.transactions[Rank(i, ParsedChunks)]
                       parsed == _parse_transaction_chunk(PdfChunks[i].chunk).txn
                   IN  /\ txn.account_currency = PdfChunks[i].currency
                       /\ \A f \in DOMAIN parsed : txn[f] = parsed[f]
            /\ r.parse_status = (IF r.parse_errors # <<>> THEN "partial" ELSE "success")

\* a document whose failing chunk is followed by a chunk that parses
C9_Witness ==
    /\ PdfScanned
    /\ \E i \in FailingChunks : \E j \in ParsedChunks : i < j
    /\ Val(pp_result).parse_status = "partial"
    /\ Val(pp_result).transactions # <<>>

\* the lines of the document before position k that are of one of kinds
Before(k, kinds) == {i \in 1..(k - 1) : pp_doc[i].kind \in kinds}

LastBefore(k, kinds) == IF Before(k, kinds) = {} THEN 0 ELSE MaxOf(Before(k, kinds))

\* collection is on when position k is reached: a column-header line was
\* seen and no "Transactions from" line and no terminator since
CollectingAt(k) ==
    /\ Before(k, {"header"}) # {}
    /\ LastBefore(k, {"period", "terminator"}) < LastBefore(k, {"header"})

\* the positions a block may be emitted at: a terminator line, or the end of
\* the input, reached with collection on
FlushPoints ==
    {k \in 1..(Len(pp_doc) + 1) :
        /\ k = Len(pp_doc) + 1 \/ pp_doc[k].kind = "terminator"
        /\ CollectingAt(k)}

AllSetAt(k) ==
    /\ Before(k, {"name"}) # {}
    /\ Before(k, {"currency"}) # {}
    /\ Before(k, {"period"}) # {}

EmitPoints == {k \in FlushPoints : AllSetAt(k)}

\* the first lines of transactions collected when position k is reached
CollectedTxns(k) ==
    LET reset == LastBefore(k, {"period", "terminator"})
        on == MinOf({h \in Before(k, {"header"}) : h > reset})
    IN  {i \in (on + 1)..(k - 1) : pp_doc[i].kind = "txn"}

\* C26: parse_pdf emits one account block for each terminator line or end of
\* input reached with collection on and account name, currency and period
\* set, in that order and with the values then held, and no other block;
\* where one of them is missing the collected lines are dropped: they give
\* no block, no transaction and no entry of parse_errors, and a document
\* with no other block has parse_status "success".
C26_BlocksOnlyWhenComplete ==
    PdfScanned =>
        LET r == Val(pp_result)
        IN  /\ Len(r.accounts_found) = Cardinality(EmitPoints)
            /\ \A k \in EmitPoints :
                   LET block == r.accounts_found[Rank(k, EmitPoints)]
                   IN  /\ block.account_name = pp_doc[LastBefore(k, {"name"})].text
                       /\ block.account_currency = pp_doc[LastBefore(k, {"currency"})].text
                       /\ block.period_start = Val(pp_doc[LastBefore(k, {"period"})].period)[1]
                       /\ block.period_end = Val(pp_doc[LastBefore(k, {"period"})].period)[2]
            /\ Len(r.transactions) + Len(r.parse_errors)
                   = Cardinality(UNION {CollectedTxns(k) : k \in EmitPoints})
            /\ EmitPoints = {} =>
                   /\ r.transactions = <<>>
                   /\ r.parse_errors = <<>>
                   /\ r.parse_status = "success"

\* a scanned document that collected a transaction line whose date does not
\* parse and reached a terminator with collection on and the currency never
\* set: no block, no transaction, no error
C26_Witness ==
    /\ PdfScanned
    /\ \E k \in FlushPoints \cap DOMAIN pp_doc :
           /\ pp_doc[k].kind = "terminator"
           /\ Before(k, {"currency"}) = {}
           /\ \E i \in CollectedTxns(k) : IsNone(Val(pp_doc[i].chunk).date)
    /\ Val(pp_result).accounts_found = <<>>
    /\ Val(pp_result).parse_status = "success"

(***************************************************************************)
(* The rate specification: the callers of one module's _fetch_bnr_rate,    *)
(* up to MaxCalls calls in all, against a source that answers or fails     *)
(* each query and changes an answer up to MaxChanges times.                *)
(***************************************************************************)
MaxCalls == 2
MaxChanges == 1

SourceDays == 9..20

Publishes(days, rate) == [d \in SourceDays |-> IF d \in days THEN Some(rate) ELSE None]

Sources ==
    {Publishes({}, 575), Publishes({20}, 575), Publishes({19, 12}, 575),
     Publishes({11}, 580), Publishes({10}, 580), Publishes({18, 20}, 580)}

FxRequests == {<<20, "GBP">>, <<18, "GBP">>, <<20, "RON">>}

InitFx ==
    /\ fx_impl \in {"main", "metrics"}
    /\ fx_cache = <<>>
    /\ fx_source \in Sources
    /\ fx_callers = [c \in Callers |-> IdleCaller]
    /\ fx_calls = 0
    /\ fx_changes = 0
    /\ fx_answers = {}
    /\ CatIdle /\ ChunkIdle /\ TransferIdle /\ MetricsIdle /\ PdfIdle /\ StoreIdle

FxOthers == <<catVars, chunkVars, transferVars, metricVars, pdfVars, storeVars>>

FetchCall(c) ==
    /\ fx_callers[c].pc = "idle"
    /\ fx_calls < MaxCalls
    /\ \E req \in FxRequests :
           fx_callers' = [fx_callers EXCEPT ![c] =
               [IdleCaller EXCEPT !.pc = "start", !.date = req[1], !.currency = req[2]]]
    /\ fx_calls' = fx_calls + 1
    /\ UNCHANGED <<fx_impl, fx_cache, fx_source, fx_changes, fx_answers, FxOthers>>

FetchStart(c) ==
    /\ fx_callers[c].pc = "start"
    /\ fx_callers' = [fx_callers EXCEPT ![c] = FetchStartOf(@, fx_impl, fx_cache)]
    /\ UNCHANGED <<fx_impl, fx_cache, fx_source, fx_calls, fx_changes, fx_answers, FxOthers>>

FetchQuery(c) ==
    /\ fx_callers[c].pc = "loop"
    /\ LET caller == fx_callers[c]
           published == SourceAnswer(fx_source, LookupDate(caller.date, caller.offset),
                                     caller.currency)
           day == LookupDate(caller.date, caller.offset)
       IN  \E answer \in {published, None} :
               /\ fx_callers' = [fx_callers EXCEPT ![c] = FetchQueryOf(@, published, answer)]
               /\ fx_answers' = fx_answers \cup {<<day, caller.currency, answer>>}
    /\ UNCHANGED <<fx_impl, fx_cache, fx_source, fx_calls, fx_changes, FxOthers>>

FetchStore(c) ==
    /\ fx_callers[c].pc = "store"
    /\ LET caller == fx_callers[c]
       IN  /\ fx_cache' = CachePut(fx_cache, StoreKey(caller), Val(caller.pending))
           /\ fx_callers' = [fx_callers EXCEPT ![c] =
                  [@ EXCEPT !.pc = "done", !.result = caller.pending]]
    /\ UNCHANGED <<fx_impl, fx_source, fx_calls, fx_changes, fx_answers, FxOthers>>

FetchReturn(c) ==
    /\ fx_callers[c].pc = "done"
    /\ fx_callers' = [fx_callers EXCEPT ![c] = IdleCaller]
    /\ UNCHANGED <<fx_impl, fx_cache, fx_source, fx_calls, fx_changes, fx_answers, FxOthers>>

SourceChanges ==
    /\ fx_changes < MaxChanges
    /\ \E d \in {20}, r \in {None, Some(590)} :
           /\ fx_source[d] # r
           /\ fx_source' = [fx_source EXCEPT ![d] = r]
    /\ fx_changes' = fx_changes + 1
    /\ UNCHANGED <<fx_impl, fx_cache, fx_callers, fx_calls, fx_answers, FxOthers>>

NextFx ==
    \/ \E c \in Callers : FetchCall(c)
    \/ \E c \in Callers : FetchStart(c)
    \/ \E c \in Callers : FetchQuery(c)
    \/ \E c \in Callers : FetchStore(c)
    \/ \E c \in Callers : FetchReturn(c)
    \/ SourceChanges

SpecFx == InitFx /\ [][NextFx]_vars

\* the callers that went past the cache test without an entry
Fetching == {c \in Callers : fx_callers[c].pc \in {"loop", "store", "done"}
                             /\ ~fx_callers[c].cached
                             /\ ~(fx_impl = "metrics" /\ fx_callers[c].currency = "RON")}

\* C10 as stated: the call returns the rate of the first day of the window
\* on which the source has the currency, and gives up only when the source
\* has it on none of the ten days.
C10_FirstPublishedDay ==
    \A c \in Fetching :
        LET caller == fx_callers[c]
            has == {k \in DOMAIN caller.queries : ~IsNone(caller.queries[k].published)}
        IN  caller.pc = "done" =>
                IF has = {} THEN IsNone(caller.result)
                ELSE caller.result = caller.queries[MinOf(has)].published

\* C10 amended: the queries are those of date, date-1, ... in that order and
\* none is earlier than date-9; a query that raises counts as a day without
\* a rate; the first query that yields the rate is the last one and its rate
\* is the one returned; None is returned only after ten queries without one.
C10_FallbackWindow ==
    \A c \in Fetching :
        LET caller == fx_callers[c]
            n == Len(caller.queries)
        IN  /\ n <= FallbackDays
            /\ \A k \in 1..n : /\ caller.queries[k].day = caller.date - (k - 1)
                               /\ caller.queries[k].day >= caller.date - 9
            /\ \A k \in 1..(n - 1) : IsNone(caller.queries[k].answer)
            /\ caller.pc = "loop" => n < FallbackDays /\ (n >= 1 => IsNone(caller.queries[n].answer))
            /\ caller.pc = "store" => n >= 1 /\ caller.queries[n].answer = caller.pending
                                            /\ ~IsNone(caller.pending)
            /\ caller.pc = "done" =>
                   /\ n >= 1
                   /\ IF IsNone(caller.result)
                      THEN n = FallbackDays /\ IsNone(caller.queries[n].answer)
                      ELSE caller.result = caller.queries[n].answer

\* a call that found the rate on a fallback day after days without one
C10_Witness ==
    \E c \in Fetching :
        LET caller == fx_callers[c]
        IN  /\ caller.pc = "done"
            /\ ~IsNone(caller.result)
            /\ Len(caller.queries) = FallbackDays

\* The handlers are coroutines that call _fetch_bnr_rate without awaiting
\* inside it, so in one process a call starts only when no other is running
\* (a caller at "done" holds the value its call returned).
FetchCallSerial(c) ==
    /\ \A o \in Callers : fx_callers[o].pc \in {"idle", "done"}
    /\ FetchCall(c)

NextFxSerial ==
    \/ \E c \in Callers : FetchCallSerial(c)
    \/ \E c \in Callers : FetchStart(c)
    \/ \E c \in Callers : FetchQuery(c)
    \/ \E c \in Callers : FetchStore(c)
    \/ \E c \in Callers : FetchReturn(c)
    \/ SourceChanges

SpecFxSerial == InitFx /\ [][NextFxSerial]_vars

RequestKey(c) == <<fx_callers[c].date, fx_callers[c].currency>>

\* C11: a rate once returned is memoized: an entry of the cache is never
\* evicted or changed; a new entry is written under the key (d, c) of the
\* call that returns it, with the rate it returns, and under no other key;
\* a call that finds its key in the cache returns the entry without a query,
\* whatever the source answers by then.
C11_Memoized ==
    [][/\ \A k \in DOMAIN fx_cache : k \in DOMAIN fx_cache' /\ fx_cache'[k] = fx_cache[k]
       /\ \A k \in DOMAIN fx_cache' \ DOMAIN fx_cache :
              \E c \in Callers : /\ fx_callers[c].pc = "store"
                                 /\ fx_callers'[c].pc = "done"
                                 /\ k = RequestKey(c)
                                 /\ fx_callers'[c].result = Some(fx_cache'[k])
       /\ \A c \in Callers :
              (/\ fx_callers[c].pc = "start"
               /\ fx_callers'[c].pc # "start"
               /\ RequestKey(c) \in DOMAIN fx_cache)
                  => /\ fx_callers'[c].pc = "done"
                     /\ fx_callers'[c].result = Some(fx_cache[RequestKey(c)])
                     /\ fx_callers'[c].queries = <<>>]_vars

\* a call answered from the cache with a rate the source no longer gives for
\* that day, the cache holding the requested key alone
C11_Witness ==
    \E c \in Callers :
        /\ fx_callers[c].pc = "done"
        /\ fx_callers[c].cached
        /\ fx_callers[c].queries = <<>>
        /\ fx_callers[c].date = 20
        /\ fx_changes >= 1
        /\ fx_callers[c].result # fx_source[20]
        /\ DOMAIN fx_cache = {RequestKey(c)}

\* the call of c ends at this step having found no rate
GivesUp(c) ==
    /\ fx_callers[c].pc = "loop"
    /\ fx_callers'[c].pc \notin {"loop", "store"}

\* C12: a query that yields no rate (none published, or the query raised)
\* never ends the call before the tenth day; a call that ends without a rate
\* has made its ten queries, returns None, and leaves the cache as it was,
\* without an entry for its key, so that the next call with that key, finding
\* no entry, enters the loop and queries the source again.
C12_GiveUpKeepsCache ==
    [][/\ \A c \in Callers :
              GivesUp(c) =>
                  /\ fx_callers'[c].pc = "done"
                  /\ fx_callers'[c].result = None
                  /\ Len(fx_callers'[c].queries) = FallbackDays
                  /\ \A i \in 1..FallbackDays : IsNone(fx_callers'[c].queries[i].answer)
                  /\ fx_cache' = fx_cache
                  /\ RequestKey(c) \notin DOMAIN fx_cache'
       /\ \A c \in Callers :
              (/\ fx_callers[c].pc = "start"
               /\ fx_callers'[c].pc # "start"
               /\ RequestKey(c) \notin DOMAIN fx_cache
               /\ fx_callers[c].currency # "RON")
                  => /\ fx_callers'[c].pc = "loop"
                     /\ fx_callers'[c].offset = 0]_vars

\* a call that gave up after ten queries, one of which raised, and the next
\* call with the same key, which queried again and returned a rate
C12_Witness ==
    \E c, o \in Callers :
        /\ fx_callers[c].pc = "done"
        /\ ~fx_callers[c].cached
        /\ Len(fx_callers[c].queries) = FallbackDays
        /\ fx_callers[c].result = None
        /\ \E i \in 1..FallbackDays : ~IsNone(fx_callers[c].queries[i].published)
        /\ fx_callers[o].pc = "done"
        /\ RequestKey(o) = RequestKey(c)
        /\ ~fx_callers[o].cached
        /\ fx_callers[o].queries # <<>>
        /\ ~IsNone(fx_callers[o].result)
        /\ RequestKey(c) \in DOMAIN fx_cache

\* the source's answers do not change: it has not changed what it publishes,
\* and every query of one day and currency has had the same answer
SteadySource ==
    /\ fx_changes = 0
    /\ \A p, q \in fx_answers : (p[1] = q[1] /\ p[2] = q[2]) => p[3] = q[3]

\* c's call has returned after querying the source itself
Queried(c) ==
    /\ fx_callers[c].pc = "done"
    /\ ~fx_callers[c].cached
    /\ fx_callers[c].queries # <<>>

\* C13: with callers interleaved step by step (cache read, each query, cache
\* write) over a source whose answers do not change, two callers that have
\* returned for the same (date, currency) hold the same rate, a caller that
\* returned a rate it looked up finds exactly that rate in the cache under its
\* key, and no step changes the value of an entry already written.
C13_RaceHarmless ==
    [][SteadySource' =>
          /\ \A c, o \in Callers :
                 (/\ fx_callers'[c].pc = "done" /\ fx_callers'[o].pc = "done"
                  /\ fx_callers'[c].date = fx_callers'[o].date
                  /\ fx_callers'[c].currency = fx_callers'[o].currency)
                     => fx_callers'[c].result = fx_callers'[o].result
          /\ \A c \in Callers :
                 (/\ fx_callers'[c].pc = "done"
                  /\ fx_callers'[c].queries # <<>>
                  /\ ~IsNone(fx_callers'[c].result))
                     => /\ <<fx_callers'[c].date, fx_callers'[c].currency>> \in DOMAIN fx_cache'
                        /\ Some(fx_cache'[<<fx_callers'[c].date, fx_callers'[c].currency>>])
                               = fx_callers'[c].result
          /\ \A k \in DOMAIN fx_cache : k \in DOMAIN fx_cache' /\ fx_cache'[k] = fx_cache[k]]_vars

\* two callers that both missed the cache, both queried the source (one day
\* without an answer, then a day with one) and both wrote the same rate
C13_Witness ==
    /\ SteadySource
    /\ \A c \in Callers :
           /\ Queried(c)
           /\ RequestKey(c) = <<20, "GBP">>
           /\ Len(fx_callers[c].queries) >= 2
           /\ fx_callers[c].result = Some(fx_cache[<<20, "GBP">>])

(***************************************************************************)
(* The application's specification: up to MaxRequests requests to the      *)
(* statement handlers, over three files and three file names.              *)
(***************************************************************************)
MaxRequests == 3

Section(currency, period) ==
    <<NameLine, CurrencyLine(currency), PeriodLine(Some(period)), HeaderLine>>

Files ==
    [transfer |->
        [readable |-> TRUE,
         lines |-> Section("GBP", <<1, 31>>)
                   \o <<TxnLine([FirstLine(Some(5), Some("EXO"), "To RON account",
                                           <<10000, 40000>>)
                                    EXCEPT !.fx = Some([base |-> "GBP", quote |-> "RON",
                                                        rate |-> 575])]),
                        DetailLine(Some(901)), TerminatorLine>>
                   \o Section("RON", <<1, 31>>)
                   \o <<TxnLine(FirstLine(Some(5), Some("EXI"), "From GBP account",
                                          <<57800, 60000>>))>>],
     partial |->
        [readable |-> TRUE,
         lines |-> Section("RON", <<1, 31>>)
                   \o <<TxnLine(FirstLine(None, Some("CARD"), "OMV Petrom", <<2500, 100>>)),
                        TxnLine(FirstLine(Some(7), Some("CARD"), "SALARIU NOIEMBRIE",
                                          <<30000, 7000>>))>>],
     broken |-> [readable |-> FALSE, lines |-> <<>>]]

Contents == DOMAIN Files
FileNames == {"a.pdf", "B.PDF", "notes.txt"}

\* what main._fetch_bnr_rate answers for GBP during one request, per date
StoreOfficials == [{5, 7} -> {None, Some(Rate(590, 100))}]

InitStore ==
    /\ s_uploads = <<>>
    /\ s_statements = <<>>
    /\ s_transactions = <<>>
    /\ s_next_id = 1
    /\ s_last = None
    /\ s_requests = 0
    /\ CatIdle /\ ChunkIdle /\ TransferIdle /\ MetricsIdle /\ PdfIdle /\ FxIdle

StoreOthers == <<catVars, chunkVars, transferVars, metricVars, pdfVars, fxVars>>

\* upload_statement, lines 197-276
UploadStatement(file_name, content, official) ==
    /\ s_requests < MaxRequests
    /\ s_requests' = s_requests + 1
    /\ IF ~IsPdfName(file_name)
       THEN /\ s_last' = Some(Response(Request("upload", file_name, content, 0), 400, None))
            /\ UNCHANGED <<s_uploads, s_statements, s_transactions, s_next_id>>
       ELSE LET parse_result == ParseFile(Files[content])
                file_hash == Sha256(content)
                existing == ExistingStatement(s_statements, file_hash)
                statement_id == s_next_id
                added == NewTransactions(s_next_id + 1, statement_id, file_name,
                                         parse_result.transactions)
            IN  /\ s_uploads' = WriteFile(s_uploads, file_name, content)
                /\ IF parse_result.status # "ok"
                   THEN /\ s_last' = Some(Response(Request("upload", file_name, content, 0), 500, None))
                        /\ UNCHANGED <<s_statements, s_transactions, s_next_id>>
                   ELSE IF ~IsNone(existing)
                   THEN /\ s_last' = Some(Response(Request("upload", file_name, content, 0), 200,
                                                   Some(Val(existing).statement_id)))
                        /\ UNCHANGED <<s_statements, s_transactions, s_next_id>>
                   ELSE /\ s_statements' =
                               Append(s_statements,
                                      NewStatement(statement_id, file_name, file_hash,
                                                   parse_result))
                        /\ s_transactions' =
                               PostprocessStatement(s_transactions \o added, statement_id,
                                                    official)
                        /\ s_next_id' = s_next_id + 1 + Len(added)
                        /\ s_last' = Some(Response(Request("upload", file_name, content, 0), 200, Some(statement_id)))
    /\ UNCHANGED StoreOthers

\* update_statement, lines 285-301
UpdateStatement(statement_id, include_in_metrics) ==
    /\ s_requests < MaxRequests
    /\ s_requests' = s_requests + 1
    /\ LET found == GetStatement(s_statements, statement_id)
       IN  IF found = {}
           THEN /\ s_last' = Some(Response(Request("update", "", "", statement_id), 404, None))
                /\ UNCHANGED s_statements
           ELSE /\ s_statements' =
                       [k \in DOMAIN s_statements |->
                           IF k \in found /\ ~IsNone(include_in_metrics)
                           THEN [s_statements[k] EXCEPT
                                    !.include_in_metrics = Val(include_in_metrics)]
                           ELSE s_statements[k]]
                /\ s_last' = Some(Response(Request("update", "", "", statement_id), 200, Some(statement_id)))
    /\ UNCHANGED <<s_uploads, s_transactions, s_next_id, StoreOthers>>

\* reparse_statement, lines 304-368
ReparseStatement(statement_id, official) ==
    /\ s_requests < MaxRequests
    /\ s_requests' = s_requests + 1
    /\ LET found == GetStatement(s_statements, statement_id)
       IN  IF found = {} \/ (\E k \in found : s_statements[k].file_name \notin DOMAIN s_uploads)
           THEN /\ s_last' = Some(Response(Request("reparse", "", "", statement_id), 404, None))
                /\ UNCHANGED <<s_statements, s_transactions, s_next_id>>
           ELSE LET k == CHOOSE j \in found : TRUE
                    statement == s_statements[k]
                    parse_result == ParseFile(Files[s_uploads[statement.file_name]])
                    added == NewTransactions(s_next_id, statement_id, statement.file_name,
                                             parse_result.transactions)
                IN  IF parse_result.status # "ok"
                    THEN /\ s_last' = Some(Response(Request("reparse", "", "", statement_id), 500, None))
                         /\ UNCHANGED <<s_statements, s_transactions, s_next_id>>
                    ELSE /\ s_statements' =
                                [s_statements EXCEPT ![k] =
                                    [@ EXCEPT
                                       !.accounts_found = parse_result.accounts_found,
                                       !.parse_status = parse_result.parse_status,
                                       !.parse_errors = parse_result.parse_errors]]
                         /\ s_transactions' =
                                PostprocessStatement(
                                    DeleteTransactions(s_transactions, statement_id) \o added,
                                    statement_id, official)
                         /\ s_next_id' = s_next_id + Len(added)
                         /\ s_last' = Some(Response(Request("reparse", "", "", statement_id), 200, Some(statement_id)))
    /\ UNCHANGED <<s_uploads, StoreOthers>>

\* update_transaction, lines 419-441
UpdateTransaction(transaction_id, payload) ==
    /\ s_requests < MaxRequests
    /\ s_requests' = s_requests + 1
    /\ LET found == GetTransaction(s_transactions, transaction_id)
       IN  IF found = {}
           THEN /\ s_last' = Some(Response(UpdateRequest(transaction_id, payload), 404, None))
                /\ UNCHANGED s_transactions
           ELSE /\ s_transactions' =
                       [k \in DOMAIN s_transactions |->
                           IF k \in found THEN ApplyUpdate(s_transactions[k], payload)
                           ELSE s_transactions[k]]
                /\ s_last' = Some(Response(UpdateRequest(transaction_id, payload), 200, None))
    /\ UNCHANGED <<s_uploads, s_statements, s_next_id, StoreOthers>>

\* the bodies a client sends
UpdatePayloads ==
    {Payload({}, None, None, None, None),
     Payload({"category_override", "override_reason"}, Some("Revenue"), Some("typo"), None, None),
     Payload({"amount_override", "sign_override"}, None, None, Some(1234), Some(TRUE)),
     Payload({"category_override", "amount_override"}, None, None, None, None)}

\* the transaction ids a client can name: those stored and one unknown
KnownTransactionIds == {s_transactions[k].id : k \in DOMAIN s_transactions} \cup {0}

\* select(Transaction).join(Statement, ...): each stored transaction with its
\* statement's include_in_metrics; the files' dates are days of January 2024
JoinStatement(statements, transactions) ==
    [k \in DOMAIN transactions |->
        LET txn == transactions[k]
            owner == CHOOSE j \in DOMAIN statements :
                         statements[j].statement_id = txn.statement_id
        IN  MetricRow(statements[owner].include_in_metrics, txn.account_currency, Jan2024,
                      txn.category, txn.category_override, txn.is_internal_transfer,
                      txn.direction, txn.amount, txn.amount_override, txn.sign_override,
                      txn.needs_review, txn.fx_rate_applied)]

\* the query strings of the metrics requests a client sends, and what the
\* rate source answers for today during one of them
EndpointArgs ==
    {[from_month |-> f, to_month |-> t, currency |-> "all", use_overrides |-> TRUE] :
         f \in {"2024-01", "2024-13"}, t \in {"2024", "Feb 2024"}}

EndpointRates == [{"GBP"} -> {Some(Rate(597, RateDen))}]

\* metrics_monthly, lines 444-462
MetricsMonthly(args, rates) ==
    /\ s_requests < MaxRequests
    /\ s_requests' = s_requests + 1
    /\ s_last' = Some(metrics_monthly(JoinStatement(s_statements, s_transactions), rates, args))
    /\ UNCHANGED <<s_uploads, s_statements, s_transactions, s_next_id, StoreOthers>>

\* metrics_summary, lines 465-483
MetricsSummary(args, rates) ==
    /\ s_requests < MaxRequests
    /\ s_requests' = s_requests + 1
    /\ s_last' = Some(metrics_summary(JoinStatement(s_statements, s_transactions), rates, args))
    /\ UNCHANGED <<s_uploads, s_statements, s_transactions, s_next_id, StoreOthers>>

\* the statement ids a client can name: those drawn so far and one unknown
KnownIds == {s_statements[k].statement_id : k \in DOMAIN s_statements} \cup {0}

Next ==
    \/ \E file_name \in FileNames, content \in Contents, official \in StoreOfficials :
           UploadStatement(file_name, content, official)
    \/ \E statement_id \in KnownIds, include \in {None, Some(TRUE), Some(FALSE)} :
           UpdateStatement(statement_id, include)
    \/ \E statement_id \in KnownIds, official \in StoreOfficials :
           ReparseStatement(statement_id, official)
    \/ \E transaction_id \in KnownTransactionIds, payload \in UpdatePayloads :
           UpdateTransaction(transaction_id, payload)
    \/ \E args \in EndpointArgs, rates \in EndpointRates : MetricsMonthly(args, rates)
    \/ \E args \in EndpointArgs, rates \in EndpointRates : MetricsSummary(args, rates)

Spec == InitStore /\ [][Next]_vars

OnePerHash ==
    \A j, k \in DOMAIN s_statements :
        s_statements[j].file_hash = s_statements[k].file_hash => j = k

LastRequest == Val(s_last).request

\* the step serves an upload, under a file name the handler accepts, of
\* bytes whose statement is already stored
UploadsStored(k) ==
    /\ s_requests' = s_requests + 1
    /\ Val(s_last').request.op = "upload"
    /\ IsPdfName(Val(s_last').request.file_name)
    /\ Sha256(Val(s_last').request.content) = s_statements[k].file_hash

\* C8: once a statement is stored for some bytes, every upload of the same
\* bytes the handler accepts (a .pdf file name) returns that statement's id
\* and leaves the statements and the transactions as they were; there is
\* never more than one statement per file_hash.
C8_UploadDedupes ==
    [][/\ OnePerHash'
       /\ \A k \in DOMAIN s_statements :
              UploadsStored(k) =>
                  /\ Val(s_last').status = 200
                  /\ Val(s_last').statement_id = Some(s_statements[k].statement_id)
                  /\ s_statements' = s_statements
                  /\ s_transactions' = s_transactions]_vars

\* the first statement's bytes uploaded again after another statement was stored
C8_Witness ==
    /\ Len(s_statements) >= 2
    /\ s_last # None
    /\ LastRequest.op = "upload"
    /\ Sha256(LastRequest.content) = s_statements[1].file_hash
    /\ Val(s_last).status = 200
    /\ Val(s_last).statement_id = Some(s_statements[1].statement_id)
    /\ s_requests > Len(s_statements)
    /\ s_transactions # <<>>

\* the step serves an update_transaction request
ServesUpdateTransaction ==
    /\ s_requests' = s_requests + 1
    /\ Val(s_last').request.op = "update_transaction"

OverrideFields == {"category_override", "override_reason", "amount_override", "sign_override"}

\* txn with its four override fields taken from other
WithOverridesOf(txn, other) ==
    [txn EXCEPT !.category_override = other.category_override,
                !.override_reason = other.override_reason,
                !.amount_override = other.amount_override,
                !.sign_override = other.sign_override]

ReparseCompletes ==
    /\ s_requests' = s_requests + 1
    /\ Val(s_last').request.op = "reparse"
    /\ Val(s_last').status = 200

\* the transactions of a statement, in table order, and those of the others
TransactionsOf(transactions, statement_id) ==
    LET Owned(txn) == txn.statement_id = statement_id
    IN  SelectSeq(transactions, Owned)

TransactionsOfOthers(transactions, statement_id) ==
    LET Foreign(txn) == txn.statement_id # statement_id
    IN  SelectSeq(transactions, Foreign)

TransactionIds(transactions) == {transactions[k].id : k \in DOMAIN transactions}

\* the fields of a stored transaction that parse_pdf supplies and no later
\* step of the handler rewrites
ParsedFields(txn_data) == DOMAIN txn_data \ {"fx_rate_applied"}

\* C17: a reparse_statement that completes keeps every statement's
\* statement_id and file_hash; no transaction the statement owned before
\* remains; the statement then owns one fresh transaction per transaction of
\* the parse of its stored file, in order, with the parsed fields and no
\* override; the transactions of the other statements are unchanged.
C17_ReparseReplaces ==
    [][ReparseCompletes =>
          LET sid == Val(s_last').request.target
              before == TransactionsOf(s_transactions, sid)
              after == TransactionsOf(s_transactions', sid)
          IN  /\ DOMAIN s_statements' = DOMAIN s_statements
              /\ \A j \in DOMAIN s_statements :
                     /\ s_statements'[j].statement_id = s_statements[j].statement_id
                     /\ s_statements'[j].file_hash = s_statements[j].file_hash
                     /\ s_statements[j].statement_id = sid =>
                            LET parsed == ParseFile(Files[s_uploads[s_statements[j].file_name]])
                                              .transactions
                            IN  /\ DOMAIN after = DOMAIN parsed
                                /\ \A k \in DOMAIN parsed :
                                       \A f \in ParsedFields(parsed[k]) : after[k][f] = parsed[k][f]
              /\ TransactionIds(before) \cap TransactionIds(s_transactions') = {}
              /\ TransactionIds(after) \cap TransactionIds(s_transactions) = {}
              /\ \A k \in DOMAIN after : \A f \in OverrideFields : IsNone(after[k][f])
              /\ TransactionsOfOthers(s_transactions', sid)
                     = TransactionsOfOthers(s_transactions, sid)]_vars

\* the first of two statements reparsed: its transactions are newer than
\* those of the second, which are still there
C17_Witness ==
    /\ s_last # None
    /\ LastRequest.op = "reparse"
    /\ Val(s_last).status = 200
    /\ Len(s_statements) >= 2
    /\ LastRequest.target = s_statements[1].statement_id
    /\ TransactionsOf(s_transactions, LastRequest.target) # <<>>
    /\ TransactionsOfOthers(s_transactions, LastRequest.target) # <<>>
    /\ \A i \in TransactionIds(TransactionsOf(s_transactions, LastRequest.target)) :
           \A j \in TransactionIds(TransactionsOfOthers(s_transactions, LastRequest.target)) :
               i > j

\* the calls of compute_monthly_metrics a client makes, and what the rate
\* source answers for today
StoreMetricArgs ==
    {[from_month |-> "2024-01", to_month |-> "2024-01", currency |-> c, use_overrides |-> u] :
         c \in {"all", "RON", "GBP"}, u \in BOOLEAN}

StoreRates == [{"GBP"} -> {None, Some(Rate(597, RateDen))}]

\* what compute_monthly_metrics returns over a database
MetricsOver(statements, transactions, rates, args) ==
    compute_monthly_metrics(JoinStatement(statements, transactions), rates, args)

\* the database with one statement's flag set
WithFlag(statements, statement_id, flag) ==
    [j \in DOMAIN statements |->
        IF statements[j].statement_id = statement_id
        THEN [statements[j] EXCEPT !.include_in_metrics = flag]
        ELSE statements[j]]

\* the step serves an update_statement request on a stored statement
UpdateStatementCompletes ==
    /\ s_requests' = s_requests + 1
    /\ Val(s_last').request.op = "update"
    /\ Val(s_last').status = 200

\* the statements whose flag is false
Excluded == {s_statements[j].statement_id :
                 j \in {i \in DOMAIN s_statements : ~s_statements[i].include_in_metrics}}

\* the transactions of the statements whose flag is true
IncludedTransactions ==
    LET Counted(txn) == txn.statement_id \notin Excluded
    IN  SelectSeq(s_transactions, Counted)

\* a call of compute_monthly_metrics returns what it would return if the
\* transactions of the statements whose flag is false were not stored
ExcludedContributeNothing ==
    \A args \in StoreMetricArgs, rates \in StoreRates :
        MetricsOver(s_statements, s_transactions, rates, args)
            = MetricsOver(s_statements, IncludedTransactions, rates, args)

\* C18: after any requests, compute_monthly_metrics returns what it would
\* return if the transactions of the statements whose include_in_metrics is
\* now false were not stored; update_statement leaves every Transaction row
\* and every Statement field but the addressed include_in_metrics as they
\* were, so a toggle to true returns the metrics to what they were with the
\* flag true before: the statement's previous contribution.
C18_FlagGatesMetrics ==
    /\ []ExcludedContributeNothing
    /\ [][UpdateStatementCompletes =>
              LET sid == Val(s_last').request.target
              IN  /\ s_transactions' = s_transactions
                  /\ DOMAIN s_statements' = DOMAIN s_statements
                  /\ WithFlag(s_statements', sid, TRUE) = WithFlag(s_statements, sid, TRUE)
                  /\ \A args \in StoreMetricArgs, rates \in StoreRates :
                         \A j \in DOMAIN s_statements' :
                             (s_statements'[j].statement_id = sid
                                  /\ s_statements'[j].include_in_metrics)
                                 => MetricsOver(s_statements', s_transactions', rates, args)
                                        = MetricsOver(WithFlag(s_statements, sid, TRUE),
                                                      s_transactions, rates, args)]_vars

\* a statement with transactions switched off next to one that is counted:
\* the metrics have a point, and differ from those with the flag on
C18_Witness ==
    /\ s_last # None
    /\ LastRequest.op = "update"
    /\ Val(s_last).status = 200
    /\ LastRequest.target \in Excluded
    /\ TransactionsOf(s_transactions, LastRequest.target) # <<>>
    /\ IncludedTransactions # <<>>
    /\ \E args \in StoreMetricArgs, rates \in StoreRates :
           /\ MetricsOver(s_statements, s_transactions, rates, args).status = "ok"
           /\ MetricsOver(s_statements, s_transactions, rates, args).points # <<>>
           /\ MetricsOver(s_statements, s_transactions, rates, args)
                  # MetricsOver(WithFlag(s_statements, LastRequest.target, TRUE),
                                s_transactions, rates, args)

\* the step serves a request to one of the metrics endpoints
ServesMetrics ==
    /\ s_requests' = s_requests + 1
    /\ Val(s_last').request.op \in {"metrics_monthly", "metrics_summary"}

\* the month strings of EndpointArgs that are neither 'YYYY-MM' with a month
\* of the calendar nor 'YYYY'
InvalidMonths == {"2024-13", "Feb 2024"}

\* C21: a metrics request whose from_month or to_month is not a valid month
\* string makes compute_monthly_metrics raise ValueError with no point
\* produced, is answered 400 without items or totals, and leaves every
\* statement and transaction as it was; a request with valid months is not
\* answered 400.
C21_InvalidMonthRejected ==
    [][ServesMetrics =>
          LET args == Val(s_last').request.args
              invalid == args.from_month \in InvalidMonths \/ args.to_month \in InvalidMonths
          IN  /\ s_statements' = s_statements
              /\ s_transactions' = s_transactions
              /\ s_uploads' = s_uploads
              /\ invalid =>
                     /\ Val(s_last').status = 400
                     /\ Val(s_last').items = <<>>
                     /\ Val(s_last').totals = None
                     /\ \A rates \in EndpointRates :
                            compute_monthly_metrics(JoinStatement(s_statements, s_transactions),
                                                    rates, args) = MetricsRaised("ValueError")
              /\ ~invalid => Val(s_last').status # 400]_vars

\* a summary request over stored transactions with a valid from_month and an
\* invalid to_month, answered 400
C21_Witness ==
    /\ s_last # None
    /\ LastRequest.op = "metrics_summary"
    /\ LastRequest.args.from_month = "2024-01"
    /\ LastRequest.args.to_month = "Feb 2024"
    /\ Val(s_last).status = 400
    /\ s_transactions # <<>>

\* the bytes a file_hash is the SHA-256 of
ContentOf(file_hash) == CHOOSE content \in Contents : Sha256(content) = file_hash

\* the transactions owned by statement are, in order and field by parsed
\* field, those parse_pdf gives for the bytes its file_hash is the hash of
OwnsParseOfHash(statement) ==
    LET parsed == ParseFile(Files[ContentOf(statement.file_hash)]).transactions
        owned == TransactionsOf(s_transactions, statement.statement_id)
    IN  /\ Len(owned) = Len(parsed)
        /\ \A k \in DOMAIN parsed :
               \A field \in ParsedFields(parsed[k]) : owned[k][field] = parsed[k][field]

\* C29: after any sequence of requests the transactions owned by a statement
\* are those parsed from the bytes whose SHA-256 is the statement's
\* file_hash, also after another file was uploaded under the statement's
\* file name and the statement was reparsed.
C29_TransactionsMatchHash ==
    \A j \in DOMAIN s_statements : OwnsParseOfHash(s_statements[j])

(***************************************************************************)
(* The categorizer's specification: one call of categorize on arguments    *)
(* drawn from descriptions of up to MaxWords phrases.                      *)
(***************************************************************************)
MaxWords == 2

Phrases ==
    {"SALARIU", "NOIEMBRIE", "Money added", "plata dividende", "ANAF", "CAM",
     "camera", "CIM", "OMV", "BCR Leasing", "aliat", "contabil",
     "optimar consult expert", "Payment  received", "bcr leasing", "roviniete"}

RECURSIVE DescriptionsOf(_)
DescriptionsOf(n) ==
    IF n = 0 THEN {}
    ELSE IF n = 1 THEN Phrases
    ELSE DescriptionsOf(n - 1)
         \cup {d \o " " \o p : d \in DescriptionsOf(n - 1), p \in Phrases}

Descriptions == DescriptionsOf(MaxWords)
Directions == {"inflow", "outflow", "neutral"}
CatTypeCodes == {None, Some("MOA"), Some("EXO")}
CatAccounts == {None, Some("RO49BONUS7")}

CatCalls ==
    [description : Descriptions, txn_type_code : CatTypeCodes, direction : Directions,
     to_account : CatAccounts, from_account : {None}]

InitCat ==
    /\ c_call \in CatCalls
    /\ c_result = None
    /\ ChunkIdle /\ TransferIdle /\ MetricsIdle /\ PdfIdle /\ FxIdle /\ StoreIdle

Categorize ==
    /\ c_result = None
    /\ c_result' = Some(categorize(c_call.description, c_call.txn_type_code,
                                   c_call.direction, c_call.to_account,
                                   c_call.from_account))
    /\ UNCHANGED <<c_call, chunkVars, transferVars, metricVars, pdfVars, fxVars, storeVars>>

SpecCat == InitCat /\ [][Categorize]_vars

(***************************************************************************)
(* The sixteen rules in the order the specification lists them: the gate   *)
(* and condition of each, and the category and confidence it yields.       *)
(***************************************************************************)
RuleGateHolds(k, direction) ==
    CASE k = 1 -> TRUE
      [] k \in 2..11 -> direction = "outflow"
      [] k \in 12..14 -> direction = "inflow"
      [] k = 15 -> direction = "outflow"
      [] OTHER -> direction = "neutral"

RuleConditionHolds(k, text, txn_type_code) ==
    CASE k = 1 -> Contains(text, "money added")
      [] k = 2 -> \E kw \in {"dividende", "dividend", "plata dividende", "profit share"} : Contains(text, kw)
      [] k = 3 -> \E kw \in {"trezoreria", "anaf", "impozit", "contributii", "tax"} : Contains(text, kw)
      [] k = 4 -> \E t \in {"cam", "cass", "cas"} : _word_boundary(text, t)
      [] k = 5 -> \E kw \in {"salariu", "payroll", "wage", "salary", "bonus"} : Contains(text, kw)
      [] k = 6 -> _word_boundary(text, "cim")
      [] k = 7 -> \E kw \in {"mol", "omv"} : Contains(text, kw)
      [] k = 8 -> Contains(text, "leasing")
      [] k = 9 -> \E kw \in VENDOR_CAR_LEASING : Contains(text, kw)
      [] k = 10 -> \E kw \in {"contabil", "contabilitate", "accounting", "expert"} : Contains(text, kw)
      [] k = 11 -> \E kw \in VENDOR_ACCOUNTANT : Contains(text, kw)
      [] k = 12 -> txn_type_code \in {Some("MOA"), Some("MOR")}
      [] k = 13 -> \E kw \in {"money added", "payment received", "incasare", "incasat"} : Contains(text, kw)
      [] OTHER -> TRUE

RuleCategory(k) ==
    CASE k \in {1, 12, 13, 14} -> "Revenue"
      [] k = 2 -> "Paid dividends"
      [] k \in {3, 4} -> "Expenses towards government (taxes)"
      [] k \in {5, 6} -> "Expenses for employees"
      [] k = 7 -> "Leasing Fuel Expenses"
      [] k \in {8, 9} -> "Expenses for Car Leasing"
      [] k \in {10, 11} -> "Expeses for accountant"
      [] OTHER -> "Other expenses"

RuleConfidence(k) ==
    CASE k \in {9, 11} -> 95
      [] k \in {4, 6, 14} -> 70
      [] k \in {15, 16} -> 40
      [] OTHER -> 90

RuleMatches(k, call) ==
    /\ RuleGateHolds(k, call.direction)
    /\ RuleConditionHolds(k, NormalizedText(call.description, call.to_account,
                                            call.from_account), call.txn_type_code)

FirstRule(call) ==
    CHOOSE k \in 1..16 : RuleMatches(k, call) /\ \A j \in 1..(k - 1) : ~RuleMatches(j, call)

CatDone == c_result # None

\* C4: categorize returns the category and confidence of the first rule, in
\* the order 1-16 of the specification, whose direction gate and keyword
\* condition both hold, never those of a later rule; an outflow
\* "SALARIU NOIEMBRIE" yields "Expenses for employees", 0.90, needs_review false.
C4_FirstRuleWins ==
    CatDone =>
        /\ \E k \in 1..16 : RuleMatches(k, c_call)
        /\ Val(c_result).category = RuleCategory(FirstRule(c_call))
        /\ Val(c_result).confidence = RuleConfidence(FirstRule(c_call))
        /\ (/\ c_call.description = "SALARIU NOIEMBRIE"
            /\ c_call.direction = "outflow"
            /\ c_call.to_account = None)
           => /\ Val(c_result).category = "Expenses for employees"
              /\ Val(c_result).confidence = 90
              /\ Val(c_result).needs_review = FALSE

\* an outflow matching both the payroll rule (5) and the fuel rule (7) has been categorized
C4_Witness ==
    /\ CatDone
    /\ c_call.direction = "outflow"
    /\ RuleMatches(5, c_call)
    /\ RuleMatches(7, c_call)
    /\ FirstRule(c_call) = 5

\* C5: every result of confidence 0.70 (tax acronym, employment-contract
\* acronym, inflow catch-all) has needs_review = true.
C5_WeakNeedsReview ==
    (CatDone /\ Val(c_result).confidence = 70) => Val(c_result).needs_review = TRUE

\* the category of the rule that names the vendor list a name is of
VendorCategory(name) ==
    IF name \in VENDOR_ACCOUNTANT THEN "Expeses for accountant"
    ELSE "Expenses for Car Leasing"

\* C27: an outflow whose description is a name of VENDOR_ACCOUNTANT or of
\* VENDOR_CAR_LEASING, with no account text, is given the vendor's category
\* with confidence 0.95.
C27_KnownVendorBand ==
    (/\ CatDone
     /\ c_call.direction = "outflow"
     /\ c_call.description \in VENDOR_ACCOUNTANT \cup VENDOR_CAR_LEASING
     /\ c_call.to_account = None)
    => /\ Val(c_result).category = VendorCategory(c_call.description)
       /\ Val(c_result).confidence = 95

=============================================================================
